---- MODULE Spec2Model ----
(***************************************************************************)
(* Zenfile / Converzen: the batch-conversion orchestration workflow.       *)
(*                                                                         *)
(* Strings are sequences of one-character strings, so that the path       *)
(* functions (Base, Ext, Clean, Join, TrimSuffix, TrimPrefix) are          *)
(* computed the way the Go code computes them.                             *)
(*                                                                         *)
(* Three specifications share the variables:                               *)
(*   SpecPath      GenerateOutputPath applied to bounded inputs            *)
(*   SpecValidate  ValidateFiles applied to bounded path lists             *)
(*   Spec          the conversion service: ConvertBatch, ConvertFile,      *)
(*                 the converters, the progress scanner goroutine and      *)
(*                 CancelConversion                                        *)
(***************************************************************************)
EXTENDS Integers, Sequences, FiniteSets, TLC

VARIABLES
    pathArgs,      \* arguments of the GenerateOutputPath call
    pathOut,       \* its return value, or NotCalled
    fmtArgs,       \* arguments of a format query of the converters
    fmtOut,        \* its answers, or NoFmtOut
    store,         \* the interface's ConverterStore: files, format, mode, names
    sent,          \* the last request handleConvert sent and its planned outputs
    ffOpts,        \* the call of the ffmpeg adapter: its entry point and options
    ffArgs,        \* the argument list it builds for the tool, or NotCalled
    settingRows,   \* the rows of the settings table
    settingOut,    \* the last call of the settings repository or service
    valPaths,      \* argument of the ValidateFiles call
    valOut,        \* its return value, or NoResult
    pc,            \* position of the calling goroutine in the service
    caller,        \* "batch" or "direct": who called ConvertFile
    request,       \* the BatchConversionRequest of ConvertBatch
    i,             \* loop index of ConvertBatch (0-based as in the code)
    result,        \* the BatchConversionResult under construction
    progressEvents,\* calls of the overall-progress callback, in order
    batchErr,      \* the error ConvertBatch returned, or "not-returned"
    job,           \* the ConversionJob of the running ConvertFile
    cur,           \* number of the record the running ConvertFile created, or 0
    cfRet,         \* what the converter / ConvertFile returns
    mem,           \* the in-memory Conversion structs, one per created record
    db,            \* the persisted Conversion rows (row n has ID n)
    scan,          \* the progress scanner goroutine of each conversion
    fsOut,         \* the files that exist at output paths
    fsAtStart,     \* fsOut when the running ConvertFile was called
    events,        \* what happened to each item: <<index, tag>>
    activeConversions, \* the cancellation registry
    cancelRet,     \* return value of the last CancelConversion
    repoFaulty     \* whether calls of the repository may fail

pathVars == <<pathArgs, pathOut>>
valVars == <<valPaths, valOut>>
fmtVars == <<fmtArgs, fmtOut>>
uiVars == <<store, sent>>
argVars == <<ffOpts, ffArgs>>
setVars == <<settingRows, settingOut>>
batchVars == <<request, i, result, progressEvents, batchErr>>
convVars == <<job, cur, cfRet, mem, db, scan, fsOut, fsAtStart>>
cancelVars == <<activeConversions, cancelRet>>
svcVars == <<pc, caller, batchVars, convVars, events, cancelVars, repoFaulty>>
vars == <<pathVars, valVars, fmtVars, uiVars, argVars, setVars, svcVars>>

NotCalled == <<"not-called">>
NoArgs == <<>>
NoResult == [files |-> <<>>, errors |-> <<>>, err |-> "not-called"]

NoRequest == [Files |-> <<>>, OutputFormat |-> <<>>, OutputDirectory |-> <<>>,
              NamingMode |-> "", CustomNames |-> <<>>, MakeCopies |-> FALSE,
              hasCallback |-> FALSE]
NoJob == [InputPath |-> <<>>, OutputPath |-> <<>>, OutputFormat |-> <<>>,
          OverwriteOutput |-> FALSE]
NoBatchResult == [TotalFiles |-> 0, Results |-> <<>>, SuccessCount |-> 0, FailCount |-> 0]
NoReturn == [res |-> "nil", err |-> "not-returned"]

PathIdle == pathArgs = NoArgs /\ pathOut = NotCalled
ValIdle == valPaths = NoArgs /\ valOut = NoResult
NoFmtArgs == [backend |-> "", inputFormat |-> <<>>, outputFormat |-> <<>>]
NoFmtOut ==
    [called |-> FALSE, canConvert |-> FALSE, imageOutputs |-> <<>>,
     videoOutputs |-> <<>>, encodeErr |-> ""]
FmtIdle == fmtArgs = NoFmtArgs /\ fmtOut = NoFmtOut
\* the ConverterStore as constructed: no files, naming mode 'original'
NewStore ==
    [files |-> <<>>, outputFormat |-> <<>>, namingMode |-> "original",
     customNames |-> <<>>]
NoSent == [done |-> FALSE, entered |-> <<>>, request |-> NoRequest, outputs |-> <<>>]
UiIdle == store = NewStore /\ sent = NoSent
NoOpts == [entry |-> ""]
ArgIdle == ffOpts = NoOpts /\ ffArgs = NotCalled
NoSettingCall == [op |-> ""]
SetIdle == settingRows = <<>> /\ settingOut = NoSettingCall
SvcIdle ==
    /\ pc = "off" /\ caller = "" /\ request = NoRequest /\ i = 0
    /\ result = NoBatchResult /\ progressEvents = <<>> /\ job = NoJob /\ cur = 0
    /\ batchErr = "not-returned"
    /\ cfRet = NoReturn /\ mem = <<>> /\ db = <<>> /\ scan = <<>>
    /\ fsOut = <<>> /\ fsAtStart = <<>> /\ events = {}
    /\ activeConversions = {} /\ cancelRet = "none"
    /\ repoFaulty = FALSE

(***************************************************************************)
(* String constants                                                        *)
(***************************************************************************)
S_empty == <<>>
S_dot == <<".">>
S_slash == <<"/">>
S_mp4 == <<"m","p","4">>
S_dotmp4 == <<".","m","p","4">>
S_gif == <<"g","i","f">>
S_png == <<"p","n","g">>
S_webp == <<"w","e","b","p">>
S_clip1 == <<"c","l","i","p","1">>
S_xy == <<"x",".","y">>
S_upe == <<".",".","/","e">>
S_out == <<"/","o","u","t">>
S_outslash == <<"/","o","u","t","/">>
S_odotp == <<"o","/",".","/","p">>
P_movie == <<"/","i","n","/","m","o","v","i","e",".","m","o","v">>
P_a_mp4 == <<"/","i","n","/","a",".","m","p","4">>
P_B_MOV == <<"/","i","n","/","B",".","M","O","V">>
P_c_png == <<"/","i","n","/","c",".","p","n","g">>
P_n_txt == <<"/","i","n","/","n",".","t","x","t">>
P_x_mp4 == <<"/","i","n","/","x",".","m","p","4">>
P_dir == <<"/","i","n","/","d">>
P_hidden == <<"/","i","n","/",".","r","c">>
P_rel == <<"a",".","b",".","c">>
P_dotdir == <<"/","i",".","d","/","f">>
O_movie_mp4 == <<"/","o","u","t","/","m","o","v","i","e",".","m","p","4">>
O_clip1_mp4 == <<"/","o","u","t","/","c","l","i","p","1",".","m","p","4">>

(***************************************************************************)
(* Go standard library string and path functions (unix)                    *)
(***************************************************************************)
MaxOf(S) == CHOOSE m \in S : \A k \in S : k <= m

\* strings.HasSuffix / strings.TrimSuffix
HasSuffix(s, suffix) ==
    /\ Len(suffix) <= Len(s)
    /\ SubSeq(s, Len(s) - Len(suffix) + 1, Len(s)) = suffix

TrimSuffix(s, suffix) ==
    IF HasSuffix(s, suffix) THEN SubSeq(s, 1, Len(s) - Len(suffix)) ELSE s

\* strings.TrimPrefix(s, "."): one leading dot is removed
TrimPrefixDot(s) ==
    IF Len(s) >= 1 /\ s[1] = "." THEN SubSeq(s, 2, Len(s)) ELSE s

\* strings.ToLower on the letters the model uses
LowerChar(c) ==
    CASE c = "B" -> "b"
      [] c = "E" -> "e"
      [] c = "G" -> "g"
      [] c = "M" -> "m"
      [] c = "N" -> "n"
      [] c = "O" -> "o"
      [] c = "P" -> "p"
      [] c = "V" -> "v"
      [] c = "W" -> "w"
      [] OTHER -> c

ToLower(s) == [k \in 1..Len(s) |-> LowerChar(s[k])]

\* filepath.Ext: the suffix beginning at the final dot of the final element
Ext(path) ==
    LET dots == {k \in 1..Len(path) :
                    /\ path[k] = "."
                    /\ \A j \in k..Len(path) : path[j] # "/"}
    IN IF dots = {} THEN <<>> ELSE SubSeq(path, MaxOf(dots), Len(path))

\* trailing slashes removed (helper of filepath.Base)
RECURSIVE StripTrailingSlashes(_)
StripTrailingSlashes(path) ==
    IF Len(path) > 0 /\ path[Len(path)] = "/"
    THEN StripTrailingSlashes(SubSeq(path, 1, Len(path) - 1))
    ELSE path

\* filepath.Base
Base(path) ==
    IF path = <<>> THEN S_dot
    ELSE LET p == StripTrailingSlashes(path)
             slashes == {k \in 1..Len(p) : p[k] = "/"}
             last == IF slashes = {} THEN p
                     ELSE SubSeq(p, MaxOf(slashes) + 1, Len(p))
         IN IF last = <<>> THEN S_slash ELSE last

\* the "/"-separated elements of a path, empty elements included
RECURSIVE SplitPath(_)
SplitPath(path) ==
    LET slashes == {k \in 1..Len(path) : path[k] = "/"}
    IN IF slashes = {} THEN <<path>>
       ELSE LET k == CHOOSE m \in slashes : \A j \in slashes : m <= j
            IN <<SubSeq(path, 1, k - 1)>> \o SplitPath(SubSeq(path, k + 1, Len(path)))

\* the element stack of filepath.Clean: "." and empty elements are dropped,
\* ".." removes the element before it, or is dropped at the root
RECURSIVE CleanElems(_, _, _)
CleanElems(elems, stack, rooted) ==
    IF elems = <<>> THEN stack
    ELSE LET e == Head(elems)
             rest == Tail(elems)
         IN IF e = <<>> \/ e = S_dot THEN CleanElems(rest, stack, rooted)
            ELSE IF e = <<".", ".">>
                 THEN IF stack # <<>> /\ stack[Len(stack)] # <<".", ".">>
                      THEN CleanElems(rest, SubSeq(stack, 1, Len(stack) - 1), rooted)
                      ELSE IF rooted THEN CleanElems(rest, stack, rooted)
                           ELSE CleanElems(rest, Append(stack, e), rooted)
                 ELSE CleanElems(rest, Append(stack, e), rooted)

RECURSIVE JoinElems(_)
JoinElems(stack) ==
    IF stack = <<>> THEN <<>>
    ELSE IF Len(stack) = 1 THEN stack[1]
         ELSE stack[1] \o S_slash \o JoinElems(Tail(stack))

\* filepath.Clean
Clean(path) ==
    IF path = <<>> THEN S_dot
    ELSE LET rooted == path[1] = "/"
             body == JoinElems(CleanElems(SplitPath(path), <<>>, rooted))
             out == IF rooted THEN S_slash \o body ELSE body
         IN IF out = <<>> THEN S_dot ELSE out

\* filepath.Join of two elements
Join(dir, name) ==
    IF dir # <<>> THEN Clean(dir \o S_slash \o name)
    ELSE IF name # <<>> THEN Clean(name)
         ELSE <<>>

(***************************************************************************)
(* The files on disk, models.GetFileType and fileServiceImpl.GetFileInfo   *)
(***************************************************************************)
FileTypeVideo == "video"
FileTypeImage == "image"
FileTypeUnknown == "unknown"

E_mov == <<".","m","o","v">>
E_png == <<".","p","n","g">>
E_webp == <<".","w","e","b","p">>
S_jpg == <<"j","p","g">>
S_jpeg == <<"j","p","e","g">>
S_bmp == <<"b","m","p">>
S_tiff == <<"t","i","f","f">>
S_tif == <<"t","i","f">>
S_mov == <<"m","o","v">>
S_m4v == <<"m","4","v">>
S_webm == <<"w","e","b","m">>
S_avi == <<"a","v","i">>
S_mkv == <<"m","k","v">>

VideoFormats == {S_dotmp4, E_mov}
ImageFormats ==
    {E_png, E_webp, S_dot \o S_jpg, S_dot \o S_jpeg, S_dot \o S_gif,
     S_dot \o S_bmp, S_dot \o S_tiff}

\* models.VideoOutputFormats and models.ImageOutputFormats: the output formats
\* offered per category (the six video formats of the subprocess backend)
VideoOutputFormats == <<S_mp4, S_webm, S_avi, S_mkv, S_mov, S_gif>>
ImageOutputFormats == <<S_png, S_jpg, S_jpeg, S_webp, S_gif, S_bmp, S_tiff>>

\* models.GetFileType: the category of a lower-cased extension
GetFileType(ext) ==
    IF ext \in VideoFormats THEN FileTypeVideo
    ELSE IF ext \in ImageFormats THEN FileTypeImage
         ELSE FileTypeUnknown

\* the input files on disk; every other path is absent
DiskEntries ==
    (P_a_mp4 :> "file") @@ (P_B_MOV :> "file") @@ (P_c_png :> "file") @@
    (P_n_txt :> "file") @@ (P_dir :> "dir") @@ (P_movie :> "file")

\* os.Stat of an input path
StatInput(path) ==
    IF path \in DOMAIN DiskEntries THEN DiskEntries[path] ELSE "absent"

ErrNone == "none"
ErrNotFound == "file not found"
ErrAccess == "failed to access file"
ErrIsDir == "path is a directory"

NoInfo == [Path |-> <<>>, Name |-> <<>>, Extension |-> <<>>, Type |-> ""]

GetFileInfo(rawPath) ==
    LET path == Clean(rawPath)
        stat == StatInput(path)
        ext == ToLower(Ext(path))
    IN IF stat = "absent" THEN [err |-> ErrNotFound, info |-> NoInfo]
       ELSE IF stat = "denied" THEN [err |-> ErrAccess, info |-> NoInfo]
       ELSE IF stat = "dir" THEN [err |-> ErrIsDir, info |-> NoInfo]
       ELSE [err |-> ErrNone,
             info |-> [Path |-> path, Name |-> Base(path), Extension |-> ext,
                       Type |-> GetFileType(ext)]]

(***************************************************************************)
(* fileServiceImpl.ValidateFiles                                           *)
(***************************************************************************)
ErrNoFiles == "no files provided"
ErrNoValid == "no valid files found"
ErrUnsupported == "unsupported file format"
ErrMixed == "mixed file types not allowed"

\* the loop of ValidateFiles from index n on (1-based; n = 1 is Go's i == 0)
RECURSIVE ValidateLoop(_, _, _, _, _)
ValidateLoop(paths, n, files, errors, firstType) ==
    IF n > Len(paths) THEN [files |-> files, errors |-> errors]
    ELSE LET r == GetFileInfo(paths[n])
         IN IF r.err # ErrNone
            THEN ValidateLoop(paths, n + 1, files,
                     Append(errors, [name |-> Base(paths[n]), kind |-> r.err]), firstType)
            ELSE IF r.info.Type = FileTypeUnknown
            THEN ValidateLoop(paths, n + 1, files,
                     Append(errors, [name |-> r.info.Name, kind |-> ErrUnsupported]), firstType)
            ELSE IF n = 1
            THEN ValidateLoop(paths, n + 1, Append(files, r.info), errors, r.info.Type)
            ELSE IF r.info.Type # firstType
            THEN ValidateLoop(paths, n + 1, files,
                     Append(errors, [name |-> r.info.Name, kind |-> ErrMixed]), firstType)
            ELSE ValidateLoop(paths, n + 1, Append(files, r.info), errors, firstType)

\* the loop without the same-type check
RECURSIVE ValidateLoop_noTypeCheck(_, _, _, _, _)
ValidateLoop_noTypeCheck(paths, n, files, errors, firstType) ==
    IF n > Len(paths) THEN [files |-> files, errors |-> errors]
    ELSE LET r == GetFileInfo(paths[n])
         IN IF r.err # ErrNone
            THEN ValidateLoop_noTypeCheck(paths, n + 1, files,
                     Append(errors, [name |-> Base(paths[n]), kind |-> r.err]), firstType)
            ELSE IF r.info.Type = FileTypeUnknown
            THEN ValidateLoop_noTypeCheck(paths, n + 1, files,
                     Append(errors, [name |-> r.info.Name, kind |-> ErrUnsupported]), firstType)
            ELSE ValidateLoop_noTypeCheck(paths, n + 1, Append(files, r.info), errors, firstType)

ValidateFiles_noTypeCheck(paths) ==
    IF Len(paths) = 0 THEN [files |-> <<>>, errors |-> <<>>, err |-> ErrNoFiles]
    ELSE LET r == ValidateLoop_noTypeCheck(paths, 1, <<>>, <<>>, "")
         IN IF Len(r.files) = 0
            THEN [files |-> <<>>, errors |-> r.errors, err |-> ErrNoValid]
            ELSE [files |-> r.files, errors |-> r.errors, err |-> ErrNone]

ValidateFiles(paths) ==
    IF Len(paths) = 0 THEN [files |-> <<>>, errors |-> <<>>, err |-> ErrNoFiles]
    ELSE LET r == ValidateLoop(paths, 1, <<>>, <<>>, "")
         IN IF Len(r.files) = 0
            THEN [files |-> <<>>, errors |-> r.errors, err |-> ErrNoValid]
            ELSE [files |-> r.files, errors |-> r.errors, err |-> ErrNone]

(***************************************************************************)
(* SpecValidate: ValidateFiles on bounded path lists                       *)
(***************************************************************************)
MaxPaths == 3

ValidatePaths == {P_a_mp4, P_B_MOV, P_c_png, P_n_txt, P_x_mp4, P_dir}

PathLists(S, n) == UNION {[1..k -> S] : k \in 0..n}

InitValidate ==
    /\ PathIdle /\ FmtIdle /\ UiIdle /\ SvcIdle /\ ArgIdle /\ SetIdle
    /\ valPaths \in PathLists(ValidatePaths, MaxPaths)
    /\ valOut = NoResult

ValidateFilesCall ==
    /\ valOut = NoResult
    /\ valOut' = ValidateFiles(valPaths)
    /\ UNCHANGED <<valPaths, pathVars, fmtVars, uiVars, argVars, setVars,
                   svcVars>>

NextValidate == ValidateFilesCall

SpecValidate == InitValidate /\ [][NextValidate]_vars

(***************************************************************************)
(* C5, C6, C7: the validator                                               *)
(***************************************************************************)
\* rules 1-3 of the validator for one path: it exists, is no directory and
\* has a known category
Resolves(path) ==
    /\ StatInput(Clean(path)) = "file"
    /\ GetFileType(ToLower(Ext(Clean(path)))) # FileTypeUnknown

CategoryOf(path) == GetFileType(ToLower(Ext(Clean(path))))

ResolvedIdx(paths) == {k \in 1..Len(paths) : Resolves(paths[k])}

FirstResolved(paths) ==
    CHOOSE k \in ResolvedIdx(paths) : \A j \in ResolvedIdx(paths) : k <= j

\* the indices that pass rules 1-4, rule 4 taken against the first
\* successfully resolved path
PassingIdx(paths) ==
    {k \in ResolvedIdx(paths) :
        CategoryOf(paths[k]) = CategoryOf(paths[FirstResolved(paths)])}

RECURSIVE InfosOf(_, _, _)
InfosOf(paths, idx, k) ==
    IF k > Len(paths) THEN <<>>
    ELSE (IF k \in idx THEN <<GetFileInfo(paths[k]).info>> ELSE <<>>)
            \o InfosOf(paths, idx, k + 1)

\* C5: the required category is that of the first path that resolves, also
\* when paths before it failed: every resolved file of that category is
\* accepted and only files of another category get the mixed-types error.
C5_FirstResolvedCategory ==
    (valOut # NoResult /\ ResolvedIdx(valPaths) # {}) =>
        LET req == CategoryOf(valPaths[FirstResolved(valPaths)])
        IN /\ \A k \in ResolvedIdx(valPaths) :
                CategoryOf(valPaths[k]) = req =>
                    \E f \in 1..Len(valOut.files) :
                        valOut.files[f].Path = Clean(valPaths[k])
           /\ \A e \in 1..Len(valOut.errors) :
                valOut.errors[e].kind = ErrMixed =>
                    \E k \in ResolvedIdx(valPaths) :
                        /\ CategoryOf(valPaths[k]) # req
                        /\ Base(Clean(valPaths[k])) = valOut.errors[e].name

\* C6: an error is returned iff no path validates (the empty list included);
\* otherwise exactly the FileInfo of the paths that passed every rule are
\* returned, in input order.
C6_ErrorIffNoneValid ==
    valOut # NoResult =>
        LET idx == IF ResolvedIdx(valPaths) = {} THEN {} ELSE PassingIdx(valPaths)
        IN /\ (valOut.err # ErrNone) <=> (idx = {})
           /\ valOut.err = ErrNone => valOut.files = InfosOf(valPaths, idx, 1)
           /\ \A f \in 1..Len(valOut.files) :
                \E k \in idx : valOut.files[f] = GetFileInfo(valPaths[k]).info

\* C7: a list of two existing files of different categories yields exactly
\* one valid FileInfo, the first file's, and one mixed-types error, recorded
\* for the second file.
C7_VideoThenImage ==
    (/\ valOut # NoResult
     /\ Len(valPaths) = 2
     /\ Resolves(valPaths[1]) /\ Resolves(valPaths[2])
     /\ CategoryOf(valPaths[1]) # CategoryOf(valPaths[2])) =>
        /\ valOut.err = ErrNone
        /\ Len(valOut.files) = 1
        /\ valOut.files[1].Path = valPaths[1]
        /\ valOut.files[1].Type = CategoryOf(valPaths[1])
        /\ valOut.errors = <<[name |-> Base(valPaths[2]), kind |-> ErrMixed]>>

\* a video followed by an image has been validated
C7_Witness ==
    /\ valOut # NoResult
    /\ valPaths = <<P_a_mp4, P_c_png>>
    /\ Len(valOut.files) = 1

(***************************************************************************)
(* fileServiceImpl.GenerateOutputPath                                      *)
(***************************************************************************)
NamingModeOriginal == "original"
NamingModeCustom == "custom"

\* a custom name that is used whatever the naming mode
GenerateOutputPath_ignoreMode(inputPath, outputDir, outputFormat, namingMode, customName) ==
    LET baseName == IF customName # <<>> THEN customName
                    ELSE TrimSuffix(Base(inputPath), Ext(inputPath))
    IN Join(outputDir, baseName \o S_dot \o TrimPrefixDot(outputFormat))

GenerateOutputPath(inputPath, outputDir, outputFormat, namingMode, customName) ==
    LET baseName ==
            IF namingMode = NamingModeCustom
            THEN IF customName # <<>> THEN customName
                 ELSE TrimSuffix(Base(inputPath), Ext(inputPath))
            ELSE TrimSuffix(Base(inputPath), Ext(inputPath))
        format == TrimPrefixDot(outputFormat)
    IN Join(outputDir, baseName \o S_dot \o format)

(***************************************************************************)
(* SpecPath: GenerateOutputPath on bounded inputs                          *)
(***************************************************************************)
PathInputs == {P_movie, P_a_mp4, P_B_MOV, P_hidden, P_rel, P_dotdir, P_dir}
PathDirs == {S_out, S_outslash, S_empty, S_odotp}
PathFormats == {S_mp4, S_dotmp4, S_gif}
PathModes == {NamingModeOriginal, NamingModeCustom, ""}
PathNames == {S_empty, S_clip1, S_xy, S_upe}

InitPath ==
    /\ ValIdle /\ FmtIdle /\ UiIdle /\ SvcIdle /\ ArgIdle /\ SetIdle
    /\ pathArgs \in [inputPath : PathInputs, outputDir : PathDirs,
                     outputFormat : PathFormats, namingMode : PathModes,
                     customName : PathNames]
    /\ pathOut = NotCalled

GenerateOutputPathCall ==
    /\ pathOut = NotCalled
    /\ pathOut' = GenerateOutputPath(pathArgs.inputPath, pathArgs.outputDir,
                                     pathArgs.outputFormat, pathArgs.namingMode,
                                     pathArgs.customName)
    /\ UNCHANGED <<pathArgs, valVars, fmtVars, uiVars, argVars, setVars,
                   svcVars>>

NextPath == GenerateOutputPathCall

SpecPath == InitPath /\ [][NextPath]_vars

(***************************************************************************)
(* C8                                                                      *)
(***************************************************************************)
\* the input file name: what follows the last "/" of the path
FileNameOf(path) ==
    CHOOSE n \in {SubSeq(path, k, Len(path)) : k \in 1..(Len(path) + 1)} :
        /\ \A j \in 1..Len(n) : n[j] # "/"
        /\ Len(n) = Len(path) \/ path[Len(path) - Len(n)] = "/"

\* a name with its extension (from the last dot on) stripped
StripExtOf(name) ==
    IF \A j \in 1..Len(name) : name[j] # "." THEN name
    ELSE CHOOSE s \in {SubSeq(name, 1, k) : k \in 0..Len(name)} :
            /\ name[Len(s) + 1] = "."
            /\ \A j \in (Len(s) + 2)..Len(name) : name[j] # "."

\* C8: GenerateOutputPath returns join(outputDir, base + "." + format), base
\* being the custom name under the Custom policy when it is non-empty and
\* the input file name without its extension otherwise, format without its
\* leading dot; the two examples of the specification give /out/movie.mp4
\* and /out/clip1.mp4; a custom name is ignored under the Original policy.
C8_OutputPath ==
    pathOut # NotCalled =>
        LET a == pathArgs
            base == IF a.namingMode = NamingModeCustom /\ a.customName # <<>>
                    THEN a.customName
                    ELSE StripExtOf(FileNameOf(a.inputPath))
            format == IF a.outputFormat[1] = "." THEN Tail(a.outputFormat)
                      ELSE a.outputFormat
        IN /\ pathOut = Join(a.outputDir, base \o S_dot \o format)
           /\ (a.inputPath = P_movie /\ a.outputDir = S_out /\ a.outputFormat = S_mp4)
                => /\ (a.namingMode = NamingModeOriginal => pathOut = O_movie_mp4)
                   /\ (a.namingMode = NamingModeCustom /\ a.customName = S_clip1
                         => pathOut = O_clip1_mp4)
                   /\ (a.namingMode = NamingModeCustom /\ a.customName = <<>>
                         => pathOut = O_movie_mp4)

\* the Original policy was applied to a call that carried a custom name
C8_Witness ==
    /\ pathOut = O_movie_mp4
    /\ pathArgs.namingMode = NamingModeOriginal
    /\ pathArgs.customName = S_clip1

(***************************************************************************)
(* The conversion service: state                                           *)
(***************************************************************************)
MaxFiles == 2
MaxTicks == 1
MaxCalls == 2
MaxFaulty == 1

StatusProcessing == "processing"
StatusCompleted == "completed"
StatusFailed == "failed"
StatusCancelled == "cancelled"

ErrUnsupportedType == "unsupported file type"
ErrInputNotFound == "Input file not found"
ErrAlreadyExists == "Output file already exists"
ErrStart == "failed to start FFmpeg"
ErrConversionFailed == "conversion failed"
ErrOpen == "Failed to open input file"
ErrDecode == "Failed to decode image"
ErrCreate == "Failed to create output file"
ErrEncode == "Failed to encode image"
ErrWebpOutput == "WebP encoding is not supported as output format"
ErrUnsupportedOutput == "Unsupported output format"
ErrCancelNotFound == "conversion not found or already completed"
ErrCreateRecord == "failed to create conversion record"
ErrUpdateRecord == "failed to update conversion record"

O_a_mp4 == <<"/","o","u","t","/","a",".","m","p","4">>
O_b_png == <<"/","o","u","t","/","b",".","p","n","g">>

OldFile == [src |-> <<>>, state |-> "old"]

\* the Conversion struct of ConvertFile, as created
NewConversion ==
    [Status |-> StatusProcessing, Progress |-> 0, ErrorMessage |-> "",
     Completed |-> FALSE]

\* the adapter run of a conversion: the state of its scanner goroutine, the
\* progress lines it has read, the row it is about to save, and the values
\* the adapter has passed to its progress sink so far
NoScanner == [st |-> "none", ticks |-> 0, snap |-> NewConversion, calls |-> <<>>]

\* the requests and jobs the behaviours are run with
BatchInputs == {P_a_mp4, P_c_png, P_n_txt, P_x_mp4}
\* the settings of a batch: every output format, naming mode and value of the
\* make-copies flag occurs
BatchSettings ==
    {[fmt |-> S_mp4, nm |-> NamingModeOriginal, names |-> <<>>, mc |-> FALSE],
     [fmt |-> S_png, nm |-> NamingModeCustom, names |-> <<S_clip1>>, mc |-> TRUE]}

\* on a repository that may fail, the batches have up to MaxFaulty files and
\* up to MaxFaulty direct calls are made
FaultyRequests(reqs) == {req \in reqs : Len(req.Files) <= MaxFaulty}

Requests ==
    {[Files |-> f, OutputFormat |-> st.fmt, OutputDirectory |-> S_out,
      NamingMode |-> st.nm, CustomNames |-> st.names, MakeCopies |-> st.mc,
      hasCallback |-> TRUE] :
        f \in PathLists(BatchInputs, MaxFiles), st \in BatchSettings}

\* the jobs of direct ConvertFile calls: overwrite is disabled (the jobs with
\* overwrite enabled are those ConvertBatch builds)
DirectJobs ==
    {[InputPath |-> inp, OutputPath |-> out,
      OutputFormat |-> TrimPrefixDot(Ext(out)), OverwriteOutput |-> FALSE] :
        inp \in BatchInputs, out \in {O_a_mp4, O_b_png}}

\* the service after NewConversionService; a file exists at one of the
\* output paths, none at the others
ServiceStart ==
    /\ PathIdle /\ ValIdle /\ FmtIdle /\ UiIdle /\ ArgIdle /\ SetIdle
    /\ pc = "idle" /\ caller = "" /\ request = NoRequest /\ i = 0
    /\ result = NoBatchResult /\ progressEvents = <<>> /\ job = NoJob /\ cur = 0
    /\ batchErr = "not-returned"
    /\ cfRet = NoReturn /\ mem = <<>> /\ db = <<>> /\ scan = <<>>
    /\ fsOut = (O_a_mp4 :> OldFile)
    /\ fsAtStart = <<>> /\ events = {}
    /\ activeConversions = {} /\ cancelRet = "none"

\* the service on a repository whose calls succeed
Init == ServiceStart /\ repoFaulty = FALSE

\* the index under which events of the running ConvertFile are recorded: the
\* item's index in a batch, the number of the call for direct calls
ItemIdx == i

\* the outcomes of a call of the repository: it succeeds, or, where the
\* repository may fail, it returns an error
RepoOutcomes == IF repoFaulty THEN BOOLEAN ELSE {TRUE}

\* the place of a record whose repo.Create failed: no row is persisted
AbsentRow == [NewConversion EXCEPT !.Status = "absent"]

\* repo.Update (gorm Save) of a struct: the whole row is written, or inserted
\* when the struct has no row yet; nothing is written when the call fails
Saved(rows, n, row, ok) == IF ok THEN [rows EXCEPT ![n] = row] ELSE rows

\* the progress callback ConvertFile hands to the converter, run on the
\* calling goroutine: the struct's progress is set and the struct is saved
SinkMem(p) == [mem EXCEPT ![cur].Progress = p]
SinkDb(p) ==
    \E ok \in RepoOutcomes : db' = Saved(db, cur, SinkMem(p)[cur], ok)

FailedResult(j, e) ==
    [InputPath |-> j.InputPath, OutputPath |-> j.OutputPath, Success |-> FALSE,
     ErrorMessage |-> e]
SuccessResult(j) ==
    [InputPath |-> j.InputPath, OutputPath |-> j.OutputPath, Success |-> TRUE,
     ErrorMessage |-> ""]

(***************************************************************************)
(* conversionServiceImpl.ConvertBatch                                      *)
(***************************************************************************)
ConvertBatchCall ==
    /\ pc = "idle"
    /\ \E req \in (IF repoFaulty THEN FaultyRequests(Requests) ELSE Requests) :
        /\ request' = req
        /\ result' = [TotalFiles |-> Len(req.Files), Results |-> <<>>,
                      SuccessCount |-> 0, FailCount |-> 0]
    /\ i' = 0
    /\ caller' = "batch"
    /\ pc' = "b_loop"
    /\ UNCHANGED <<progressEvents, batchErr, convVars, events, cancelVars, pathVars,
                   valVars, fmtVars, uiVars,
                   argVars, setVars, repoFaulty>>

\* a check that also applies the validator's rule: an item whose category
\* differs from the first file's gets the mixed-types error
ItemError_singleCategory(req, idx) ==
    LET r == GetFileInfo(req.Files[idx + 1])
        first == GetFileInfo(req.Files[1])
    IN IF r.err # ErrNone THEN r.err
       ELSE IF first.err = ErrNone /\ r.info.Type # first.info.Type
            THEN ErrMixed ELSE ErrNone

\* line 120: the only check the loop makes on an item is GetFileInfo
ItemError(req, idx) == GetFileInfo(req.Files[idx + 1]).err

\* lines 118-127: the item does not pass GetFileInfo; the dropped variant
\* leaves the item out of the result
BatchValidateFail_dropped ==
    /\ pc = "b_loop" /\ i < Len(request.Files)
    /\ ItemError(request, i) # ErrNone
    /\ i' = i + 1
    /\ events' = events \cup {<<i, "validate">>}
    /\ UNCHANGED <<pc, caller, request, result, progressEvents, batchErr, convVars,
                   cancelVars, pathVars, valVars, fmtVars, uiVars,
                   argVars, setVars, repoFaulty>>

BatchValidateFail ==
    /\ pc = "b_loop" /\ i < Len(request.Files)
    /\ LET inputPath == request.Files[i + 1]
           err == ItemError(request, i)
       IN /\ err # ErrNone
          /\ result' = [result EXCEPT
                 !.Results = Append(@, [InputPath |-> inputPath, OutputPath |-> <<>>,
                                        Success |-> FALSE, ErrorMessage |-> err]),
                 !.FailCount = @ + 1]
    /\ i' = i + 1
    /\ events' = events \cup {<<i, "validate">>}
    /\ UNCHANGED <<pc, caller, request, progressEvents, batchErr, convVars, cancelVars,
                   pathVars, valVars, fmtVars, uiVars,
                   argVars, setVars, repoFaulty>>

\* lines 129-140: the output path of the file at (zero-based) position idx;
\* its custom name is the entry of CustomNames at the same position, if any
PlannedOutputPath(req, idx) ==
    LET customName == IF req.NamingMode = NamingModeCustom
                         /\ idx < Len(req.CustomNames)
                      THEN req.CustomNames[idx + 1] ELSE <<>>
    IN GenerateOutputPath(req.Files[idx + 1], req.OutputDirectory,
                          req.OutputFormat, req.NamingMode, customName)

\* a job whose overwrite flag is the negated make-copies flag and stays so
BatchJob_keepsFlag(req, idx) ==
    [InputPath |-> req.Files[idx + 1],
     OutputPath |-> PlannedOutputPath(req, idx),
     OutputFormat |-> req.OutputFormat,
     OverwriteOutput |-> ~req.MakeCopies]

\* lines 142-153: the job of item idx; OverwriteOutput is !MakeCopies and is
\* then set to true when MakeCopies is set
BatchJob(req, idx) ==
    LET job0 == [InputPath |-> req.Files[idx + 1],
                 OutputPath |-> PlannedOutputPath(req, idx),
                 OutputFormat |-> req.OutputFormat,
                 OverwriteOutput |-> ~req.MakeCopies]
    IN IF req.MakeCopies THEN [job0 EXCEPT !.OverwriteOutput = TRUE] ELSE job0

\* a loop that plans and converts an item before it is validated
BatchPlan_unvalidated ==
    /\ pc = "b_loop" /\ i < Len(request.Files)
    /\ job' = BatchJob(request, i)
    /\ events' = events \cup {<<i, "plan">>, <<i, "convert">>}
    /\ fsAtStart' = fsOut
    /\ cur' = 0
    /\ cfRet' = NoReturn
    /\ pc' = "cf_begin"
    /\ UNCHANGED <<caller, batchVars, mem, db, scan, fsOut, cancelVars,
                   pathVars, valVars, fmtVars, uiVars,
                   argVars, setVars, repoFaulty>>

\* lines 129-156: the output path is generated, the job built and
\* ConvertFile called
BatchPlan ==
    /\ pc = "b_loop" /\ i < Len(request.Files)
    /\ ItemError(request, i) = ErrNone
    /\ job' = BatchJob(request, i)
    /\ events' = events \cup {<<i, "validate">>, <<i, "plan">>, <<i, "convert">>}
    /\ fsAtStart' = fsOut
    /\ cur' = 0
    /\ cfRet' = NoReturn
    /\ pc' = "cf_begin"
    /\ UNCHANGED <<caller, batchVars, mem, db, scan, fsOut, cancelVars,
                   pathVars, valVars, fmtVars, uiVars,
                   argVars, setVars, repoFaulty>>

\* the overall progress value float64(i+1) / float64(len) * 100, kept as the
\* fraction num / den
OverallProgress(idx, total) == [num |-> (idx + 1) * 100, den |-> total]

\* lines 158-179 with a loop that stops at the first failed item
BatchAfter_abortOnError ==
    /\ pc = "b_after"
    /\ result' =
         IF cfRet.err # ErrNone
         THEN [result EXCEPT
                 !.Results = Append(@, FailedResult(job, cfRet.err)),
                 !.FailCount = @ + 1]
         ELSE [result EXCEPT !.Results = Append(@, cfRet.res),
                             !.SuccessCount = @ + 1]
    /\ progressEvents' =
         IF request.hasCallback
         THEN Append(progressEvents,
                     [InputPath |-> request.Files[i + 1],
                      Progress |-> OverallProgress(i, Len(request.Files)),
                      Status |-> StatusCompleted])
         ELSE progressEvents
    /\ i' = IF cfRet.err # ErrNone THEN Len(request.Files) ELSE i + 1
    /\ pc' = "b_loop"
    /\ job' = NoJob /\ cur' = 0 /\ cfRet' = NoReturn /\ fsAtStart' = <<>>
    /\ UNCHANGED <<caller, request, batchErr, mem, db, scan, fsOut, events, cancelVars,
                   pathVars, valVars, fmtVars, uiVars,
                   argVars, setVars, repoFaulty>>

\* lines 158-179: the item's result is appended and the progress reported
BatchAfter ==
    /\ pc = "b_after"
    /\ result' =
         IF cfRet.err # ErrNone
         THEN [result EXCEPT
                 !.Results = Append(@, FailedResult(job, cfRet.err)),
                 !.FailCount = @ + 1]
         ELSE [result EXCEPT !.Results = Append(@, cfRet.res),
                             !.SuccessCount = @ + 1]
    /\ progressEvents' =
         IF request.hasCallback
         THEN Append(progressEvents,
                     [InputPath |-> request.Files[i + 1],
                      Progress |-> OverallProgress(i, Len(request.Files)),
                      Status |-> StatusCompleted])
         ELSE progressEvents
    /\ i' = i + 1
    /\ pc' = "b_loop"
    /\ job' = NoJob /\ cur' = 0 /\ cfRet' = NoReturn /\ fsAtStart' = <<>>
    /\ UNCHANGED <<caller, request, batchErr, mem, db, scan, fsOut, events, cancelVars,
                   pathVars, valVars, fmtVars, uiVars,
                   argVars, setVars, repoFaulty>>

\* lines 182-187: the result is returned with a nil error
BatchReturn ==
    /\ pc = "b_loop" /\ i >= Len(request.Files)
    /\ pc' = "done"
    /\ batchErr' = ErrNone
    /\ UNCHANGED <<caller, request, i, result, progressEvents, convVars, events,
                   cancelVars, pathVars, valVars, fmtVars, uiVars,
                   argVars, setVars, repoFaulty>>

(***************************************************************************)
(* conversionServiceImpl.ConvertFile                                       *)
(***************************************************************************)
\* a direct call of the service's ConvertFile, the first or one that follows
\* the return of the one before
ConvertFileCall ==
    /\ \/ pc = "idle" /\ i' = 0
       \/ /\ pc = "done" /\ caller = "direct"
          /\ i + 1 < (IF repoFaulty THEN MaxFaulty ELSE MaxCalls)
          /\ i' = i + 1
    /\ \E j \in DirectJobs : job' = j
    /\ caller' = "direct"
    /\ fsAtStart' = fsOut
    /\ cur' = 0
    /\ cfRet' = NoReturn
    /\ events' = events \cup {<<i', "convert">>}
    /\ pc' = "cf_begin"
    /\ UNCHANGED <<request, result, progressEvents, batchErr, mem, db, scan, fsOut,
                   cancelVars, pathVars, valVars, fmtVars, uiVars,
                   argVars, setVars, repoFaulty>>

\* lines 50-53
CfGetInfoFail ==
    /\ pc = "cf_begin"
    /\ GetFileInfo(job.InputPath).err # ErrNone
    /\ cfRet' = [res |-> "nil", err |-> GetFileInfo(job.InputPath).err]
    /\ pc' = "cf_ret"
    /\ UNCHANGED <<caller, batchVars, job, cur, mem, db, scan, fsOut, fsAtStart,
                   events, cancelVars, pathVars, valVars, fmtVars, uiVars,
                   argVars, setVars, repoFaulty>>

\* lines 55-70 with a failed repo.Create ending the call
CfCreate_abortsOnError ==
    /\ pc = "cf_begin"
    /\ GetFileInfo(job.InputPath).err = ErrNone
    /\ \E ok \in RepoOutcomes :
         /\ mem' = Append(mem, NewConversion)
         /\ db' = Append(db, IF ok THEN NewConversion ELSE AbsentRow)
         /\ IF ok
            THEN pc' = "cf_dispatch" /\ UNCHANGED cfRet
            ELSE pc' = "cf_ret" /\ cfRet' = [res |-> "nil", err |-> ErrCreateRecord]
    /\ scan' = Append(scan, NoScanner)
    /\ cur' = Len(mem) + 1
    /\ UNCHANGED <<caller, batchVars, job, fsOut, fsAtStart, events,
                   cancelVars, pathVars, valVars, fmtVars, uiVars,
                   argVars, setVars, repoFaulty>>

\* lines 55-70: the record is created in status processing; an error of
\* repo.Create is logged and the call goes on
CfCreate ==
    /\ pc = "cf_begin"
    /\ GetFileInfo(job.InputPath).err = ErrNone
    /\ \E ok \in RepoOutcomes :
         /\ mem' = Append(mem, NewConversion)
         /\ db' = Append(db, IF ok THEN NewConversion ELSE AbsentRow)
    /\ scan' = Append(scan, NoScanner)
    /\ cur' = Len(mem) + 1
    /\ pc' = "cf_dispatch"
    /\ UNCHANGED <<caller, batchVars, job, cfRet, fsOut, fsAtStart, events,
                   cancelVars, pathVars, valVars, fmtVars, uiVars,
                   argVars, setVars, repoFaulty>>

\* a switch whose default case falls back to the image converter
SelectConverter_defaultImage(type) ==
    CASE type = FileTypeVideo -> "video"
      [] OTHER -> "image"

\* lines 73-81: the switch on the file's category; "none" is the default
\* case, which returns the unsupported-type error
SelectConverter(type) ==
    CASE type = FileTypeVideo -> "video"
      [] type = FileTypeImage -> "image"
      [] OTHER -> "none"

\* a ConvertFile that registers the conversion before it calls the converter
CfDispatch_registers ==
    /\ pc = "cf_dispatch"
    /\ LET converter == SelectConverter(GetFileInfo(job.InputPath).info.Type)
       IN CASE converter = "video" ->
                 /\ pc' = "vid_start"
                 /\ events' = events \cup {<<ItemIdx, "video">>}
                 /\ UNCHANGED cfRet
            [] converter = "image" ->
                 /\ pc' = "img_start"
                 /\ events' = events \cup {<<ItemIdx, "image">>}
                 /\ UNCHANGED cfRet
            [] OTHER ->
                 /\ cfRet' = [res |-> "nil", err |-> ErrUnsupportedType]
                 /\ pc' = "cf_ret"
                 /\ UNCHANGED events
    /\ activeConversions' = activeConversions \cup {cur}
    /\ UNCHANGED <<caller, batchVars, job, cur, mem, db, scan, fsOut, fsAtStart,
                   cancelRet, pathVars, valVars, fmtVars, uiVars,
                   argVars, setVars, repoFaulty>>

\* lines 72-81: the converter is selected by the file's category
CfDispatch ==
    /\ pc = "cf_dispatch"
    /\ LET converter == SelectConverter(GetFileInfo(job.InputPath).info.Type)
       IN CASE converter = "video" ->
                 /\ pc' = "vid_start"
                 /\ events' = events \cup {<<ItemIdx, "video">>}
                 /\ UNCHANGED cfRet
            [] converter = "image" ->
                 /\ pc' = "img_start"
                 /\ events' = events \cup {<<ItemIdx, "image">>}
                 /\ UNCHANGED cfRet
            [] OTHER ->
                 /\ cfRet' = [res |-> "nil", err |-> ErrUnsupportedType]
                 /\ pc' = "cf_ret"
                 /\ UNCHANGED events
    /\ UNCHANGED <<caller, batchVars, job, cur, mem, db, scan, fsOut, fsAtStart,
                   cancelVars, pathVars, valVars, fmtVars, uiVars,
                   argVars, setVars, repoFaulty>>

\* lines 89-103: the terminal update of the record
CfFinish ==
    /\ pc = "cf_finish"
    /\ mem' = IF cfRet.err # ErrNone
              THEN [mem EXCEPT ![cur].Completed = TRUE,
                               ![cur].Status = StatusFailed,
                               ![cur].ErrorMessage = cfRet.err]
              ELSE [mem EXCEPT ![cur].Completed = TRUE,
                               ![cur].Status = StatusCompleted]
    /\ \E ok \in RepoOutcomes : db' = Saved(db, cur, mem'[cur], ok)
    /\ pc' = "cf_ret"
    /\ UNCHANGED <<caller, batchVars, job, cur, cfRet, scan, fsOut, fsAtStart,
                   events, cancelVars, pathVars, valVars, fmtVars, uiVars,
                   argVars, setVars, repoFaulty>>

\* line 105: ConvertFile returns to its caller. The goroutine is not joined;
\* the interleavings followed are those in which a save it has begun lands
\* before the caller goes on (a later landing writes the same row), and the
\* goroutine then finds the pipe closed and ends.
CfReturn ==
    /\ pc = "cf_ret"
    /\ cur # 0 => scan[cur].st # "saving"
    /\ pc' = IF caller = "batch" THEN "b_after" ELSE "done"
    /\ events' = IF cfRet.err = ErrNone THEN events \cup {<<ItemIdx, "ok">>}
                 ELSE events
    /\ scan' = IF cur # 0 THEN [scan EXCEPT ![cur] = NoScanner] ELSE scan
    /\ UNCHANGED <<caller, batchVars, job, cur, cfRet, mem, db, fsOut, fsAtStart,
                   cancelVars, pathVars, valVars, fmtVars, uiVars,
                   argVars, setVars, repoFaulty>>

(***************************************************************************)
(* The converters                                                          *)
(***************************************************************************)
\* os.MkdirAll of the output directory (lines 49-55 of the video converter,
\* 94-100 of the image converter) succeeds: every output path lies in the
\* directory of the output file that exists from the start.

\* the converter returns an error: ConvertFile goes on to its terminal update
ConverterFails(e) ==
    /\ cfRet' = [res |-> FailedResult(job, e), err |-> e]
    /\ pc' = "cf_finish"

\* ffmpegVideoConverter.Convert lines 42-64 without the check of the
\* overwrite flag
VidStart_noExistsCheck ==
    /\ pc = "vid_start"
    /\ \/ /\ StatInput(job.InputPath) = "absent"
          /\ ConverterFails(ErrInputNotFound)
          /\ UNCHANGED scan
       \/ /\ StatInput(job.InputPath) # "absent"
          /\ \E started \in BOOLEAN, duration \in {0, 1} :
               IF ~started
               THEN ConverterFails(ErrStart) /\ UNCHANGED scan
               ELSE /\ scan' = IF duration > 0
                               THEN [scan EXCEPT ![cur].st = "scanning"]
                               ELSE scan
                    /\ pc' = "vid_wait"
                    /\ UNCHANGED cfRet
    /\ UNCHANGED <<caller, batchVars, job, cur, mem, db, fsOut, fsAtStart,
                   events, cancelVars, pathVars, valVars, fmtVars, uiVars,
                   argVars, setVars, repoFaulty>>

\* ffmpegVideoConverter.Convert lines 42-64 and FFmpeg.Convert /
\* ConvertToGif up to the start of the scanner goroutine
VidStart ==
    /\ pc = "vid_start"
    /\ \/ /\ StatInput(job.InputPath) = "absent"
          /\ ConverterFails(ErrInputNotFound)
          /\ UNCHANGED scan
       \/ /\ StatInput(job.InputPath) # "absent"
          /\ ~job.OverwriteOutput /\ job.OutputPath \in DOMAIN fsOut
          /\ ConverterFails(ErrAlreadyExists)
          /\ UNCHANGED scan
       \/ /\ StatInput(job.InputPath) # "absent"
          /\ ~(~job.OverwriteOutput /\ job.OutputPath \in DOMAIN fsOut)
          /\ \E started \in BOOLEAN, duration \in {0, 1} :
               IF ~started
               THEN ConverterFails(ErrStart) /\ UNCHANGED scan
               ELSE /\ scan' = IF duration > 0
                               THEN [scan EXCEPT ![cur].st = "scanning"]
                               ELSE scan
                    /\ pc' = "vid_wait"
                    /\ UNCHANGED cfRet
    /\ UNCHANGED <<caller, batchVars, job, cur, mem, db, fsOut, fsAtStart,
                   events, cancelVars, pathVars, valVars, fmtVars, uiVars,
                   argVars, setVars, repoFaulty>>

\* cmd.Wait returns: the tool has written the output, or it failed and may
\* have left a partial output behind
VidWait ==
    /\ pc = "vid_wait"
    /\ \/ /\ fsOut' = (job.OutputPath :> [src |-> job.InputPath, state |-> "full"]) @@ fsOut
          /\ pc' = "vid_final"
          /\ UNCHANGED cfRet
       \/ /\ \E partial \in BOOLEAN :
               fsOut' = IF partial
                        THEN (job.OutputPath :> [src |-> job.InputPath, state |-> "partial"]) @@ fsOut
                        ELSE fsOut
          /\ ConverterFails(ErrConversionFailed)
    /\ UNCHANGED <<caller, batchVars, job, cur, mem, db, scan, fsAtStart,
                   events, cancelVars, pathVars, valVars, fmtVars, uiVars,
                   argVars, setVars, repoFaulty>>

\* FFmpeg.Convert lines 200-205 and ffmpegVideoConverter.Convert lines
\* 97-106: the final progress 100 on the calling goroutine
VidFinal ==
    /\ pc = "vid_final"
    /\ mem' = SinkMem(100)
    /\ SinkDb(100)
    /\ scan' = [scan EXCEPT ![cur].calls = Append(@, 100)]
    /\ cfRet' = [res |-> SuccessResult(job), err |-> ErrNone]
    /\ pc' = "cf_finish"
    /\ UNCHANGED <<caller, batchVars, job, cur, fsOut, fsAtStart, events,
                   cancelVars, pathVars, valVars, fmtVars, uiVars,
                   argVars, setVars, repoFaulty>>

\* the raw percentage currentTime / duration * 100 of a progress line
RawProgress == {50, 150}

\* lines 185-187: the progress is capped at 100
Clamp(raw) == IF raw > 100 THEN 100 ELSE raw

\* the scanner goroutine of conversion n reads a progress line and enters
\* the callback: it sets the struct's progress and reads the struct to save it.
\* The lines are read while the tool runs and, for the lines left in the pipe
\* when cmd.Wait closes it, while ConvertFile goes on to its return.
ScanTick(n) ==
    /\ scan[n].st = "scanning"
    /\ n = cur /\ pc \in {"vid_wait", "vid_final", "cf_finish", "cf_ret"}
    /\ scan[n].ticks < MaxTicks
    /\ \E raw \in RawProgress :
         /\ mem' = [mem EXCEPT ![n].Progress = Clamp(raw)]
         /\ scan' = [scan EXCEPT ![n].st = "saving", ![n].ticks = @ + 1,
                                 ![n].snap = mem'[n],
                                 ![n].calls = Append(@, Clamp(raw))]
    /\ UNCHANGED <<pc, caller, batchVars, job, cur, cfRet, db, fsOut, fsAtStart,
                   events, cancelVars, pathVars, valVars, fmtVars, uiVars,
                   argVars, setVars, repoFaulty>>

\* the scanner goroutine's repo.Update writes the row it read; the write may
\* land before or after the writes of the calling goroutine
ScanSave(n) ==
    /\ scan[n].st = "saving"
    /\ \E ok \in RepoOutcomes : db' = Saved(db, n, scan[n].snap, ok)
    /\ scan' = [scan EXCEPT ![n].st = "scanning"]
    /\ UNCHANGED <<pc, caller, batchVars, job, cur, cfRet, mem, fsOut, fsAtStart,
                   events, cancelVars, pathVars, valVars, fmtVars, uiVars,
                   argVars, setVars, repoFaulty>>

Scanner == \E n \in 1..Len(scan) : ScanTick(n) \/ ScanSave(n)

(***************************************************************************)
(* imageConverter.Convert                                                  *)
(***************************************************************************)
\* the output formats the encoder switch of lines 127-137 handles
ImageEncoders == {S_png, S_jpg, S_jpeg, S_gif, S_bmp, S_tiff, S_tif}

\* lines 124-147: the error the encoder switch returns for the format of an
\* output path, ErrNone when the format has an encoder
ImgFormatError(outputPath) ==
    LET outputFormat == ToLower(TrimPrefixDot(Ext(outputPath)))
    IN IF outputFormat \in ImageEncoders THEN ErrNone
       ELSE IF outputFormat = S_webp THEN ErrWebpOutput
            ELSE ErrUnsupportedOutput

\* lines 44-47: the initial progress
ImgStart ==
    /\ pc = "img_start"
    /\ mem' = SinkMem(10)
    /\ SinkDb(10)
    /\ pc' = "img_open"
    /\ UNCHANGED <<caller, batchVars, job, cur, cfRet, scan, fsOut, fsAtStart,
                   events, cancelVars, pathVars, valVars, fmtVars, uiVars,
                   argVars, setVars, repoFaulty>>

\* lines 49-60: the input is opened
ImgOpen ==
    /\ pc = "img_open"
    /\ \E ok \in BOOLEAN :
         IF ok
         THEN /\ mem' = SinkMem(20)
              /\ SinkDb(20)
              /\ pc' = "img_decode"
              /\ UNCHANGED cfRet
         ELSE ConverterFails(ErrOpen) /\ UNCHANGED <<mem, db>>
    /\ UNCHANGED <<caller, batchVars, job, cur, scan, fsOut, fsAtStart, events,
                   cancelVars, pathVars, valVars, fmtVars, uiVars,
                   argVars, setVars, repoFaulty>>

\* lines 62-92: the input is decoded
ImgDecode ==
    /\ pc = "img_decode"
    /\ \E ok \in BOOLEAN :
         IF ok
         THEN /\ mem' = SinkMem(50)
              /\ SinkDb(50)
              /\ pc' = "img_out"
              /\ UNCHANGED cfRet
         ELSE ConverterFails(ErrDecode) /\ UNCHANGED <<mem, db>>
    /\ UNCHANGED <<caller, batchVars, job, cur, scan, fsOut, fsAtStart, events,
                   cancelVars, pathVars, valVars, fmtVars, uiVars,
                   argVars, setVars, repoFaulty>>

\* lines 94-122: the output directory is made, the overwrite flag checked
\* and the output file created (an existing file is truncated)
ImgOut ==
    /\ pc = "img_out"
    /\ \/ /\ ~job.OverwriteOutput /\ job.OutputPath \in DOMAIN fsOut
          /\ ConverterFails(ErrAlreadyExists)
          /\ UNCHANGED <<mem, db, fsOut>>
       \/ /\ ~(~job.OverwriteOutput /\ job.OutputPath \in DOMAIN fsOut)
          /\ \E created \in BOOLEAN :
               IF created
               THEN /\ fsOut' = (job.OutputPath :> [src |-> job.InputPath, state |-> "empty"]) @@ fsOut
                    /\ mem' = SinkMem(70)
                    /\ SinkDb(70)
                    /\ pc' = "img_encode"
                    /\ UNCHANGED cfRet
               ELSE ConverterFails(ErrCreate) /\ UNCHANGED <<mem, db, fsOut>>
    /\ UNCHANGED <<caller, batchVars, job, cur, scan, fsAtStart, events,
                   cancelVars, pathVars, valVars, fmtVars, uiVars,
                   argVars, setVars, repoFaulty>>

\* lines 124-169: the image is encoded in the format of the output path
ImgEncode ==
    /\ pc = "img_encode"
    /\ IF ImgFormatError(job.OutputPath) = ErrNone
       THEN \E ok \in BOOLEAN :
              IF ok
              THEN /\ fsOut' = (job.OutputPath :> [src |-> job.InputPath, state |-> "full"]) @@ fsOut
                   /\ mem' = SinkMem(100)
                   /\ SinkDb(100)
                   /\ cfRet' = [res |-> SuccessResult(job), err |-> ErrNone]
                   /\ pc' = "cf_finish"
              ELSE ConverterFails(ErrEncode) /\ UNCHANGED <<mem, db, fsOut>>
       ELSE /\ ConverterFails(ImgFormatError(job.OutputPath))
            /\ UNCHANGED <<mem, db, fsOut>>
    /\ UNCHANGED <<caller, batchVars, job, cur, scan, fsAtStart, events,
                   cancelVars, pathVars, valVars, fmtVars, uiVars,
                   argVars, setVars, repoFaulty>>

(***************************************************************************)
(* conversionServiceImpl.CancelConversion                                  *)
(***************************************************************************)
\* the method on a registry, the persisted rows and an id: the registry and
\* the rows it leaves, the error it returns and the cancel triggers it invokes
\* (repo.GetByID finds the row of an id that has one, and nil otherwise); in
\* the first variant the entry stays in the registry
CancelOutcome_keepsEntry(reg, rows, id) ==
    IF id \in reg
    THEN [reg |-> reg,
          db |-> IF id \in 1..Len(rows)
                 THEN [rows EXCEPT ![id].Status = StatusCancelled] ELSE rows,
          ret |-> "nil", triggered |-> <<id>>]
    ELSE [reg |-> reg, db |-> rows, ret |-> ErrCancelNotFound, triggered |-> <<>>]

CancelOutcome(reg, rows, id) ==
    IF id \in reg
    THEN [reg |-> reg \ {id},
          db |-> IF id \in 1..Len(rows)
                 THEN [rows EXCEPT ![id].Status = StatusCancelled] ELSE rows,
          ret |-> "nil", triggered |-> <<id>>]
    ELSE [reg |-> reg, db |-> rows, ret |-> ErrCancelNotFound, triggered |-> <<>>]

\* the ids CancelConversion is called with: those of the records, those of
\* the registry and one that is unknown
CancelIds == (1..(Len(db) + 1)) \cup activeConversions

\* the method with a not-found branch that marks the record cancelled
CancelConversion_marksUnknown ==
    /\ \E id \in CancelIds :
         LET o == CancelOutcome(activeConversions, db, id)
         IN /\ activeConversions' = o.reg
            /\ db' = IF id \in 1..Len(db)
                     THEN [db EXCEPT ![id].Status = StatusCancelled] ELSE db
            /\ cancelRet' = o.ret
            /\ events' = events \cup {<<o.triggered[k], "cancel">> : k \in 1..Len(o.triggered)}
    /\ UNCHANGED <<pc, caller, batchVars, job, cur, cfRet, mem, scan, fsOut,
                   fsAtStart, pathVars, valVars, fmtVars, uiVars,
                   argVars, setVars, repoFaulty>>

\* CancelConversion(id): the whole method runs with the registry mutex held,
\* as one step
CancelCall(id) ==
    /\ LET o == CancelOutcome(activeConversions, db, id)
       IN /\ activeConversions' = o.reg
          /\ db' = o.db
          /\ cancelRet' = o.ret
          /\ events' = events \cup {<<o.triggered[k], "cancel">> : k \in 1..Len(o.triggered)}
    /\ UNCHANGED <<pc, caller, batchVars, job, cur, cfRet, mem, scan, fsOut,
                   fsAtStart, pathVars, valVars, fmtVars, uiVars,
                   argVars, setVars, repoFaulty>>

CancelConversion == \E id \in CancelIds : CancelCall(id)

(***************************************************************************)
(* The service                                                             *)
(***************************************************************************)
Next ==
    \/ ConvertBatchCall
    \/ BatchValidateFail
    \/ BatchPlan
    \/ BatchAfter
    \/ BatchReturn
    \/ ConvertFileCall
    \/ CfGetInfoFail
    \/ CfCreate
    \/ CfDispatch
    \/ CfFinish
    \/ CfReturn
    \/ VidStart
    \/ VidWait
    \/ VidFinal
    \/ Scanner
    \/ ImgStart
    \/ ImgOpen
    \/ ImgDecode
    \/ ImgOut
    \/ ImgEncode
    \/ CancelConversion

Spec == Init /\ [][Next]_vars

\* the service on a repository whose calls may fail
InitPersist == ServiceStart /\ repoFaulty = TRUE

SpecPersist == InitPersist /\ [][Next]_vars

(***************************************************************************)
(* Properties of ConvertBatch and ConvertFile                              *)
(***************************************************************************)
TerminalStatuses == {StatusCompleted, StatusFailed, StatusCancelled}

BatchDone == pc = "done" /\ caller = "batch"

\* C1: when ConvertBatch returns, SuccessCount + FailCount = TotalFiles = the
\* number of input paths, Results has TotalFiles entries and the k-th result
\* carries the k-th input path.
C1_BatchCounts ==
    BatchDone =>
        /\ result.SuccessCount + result.FailCount = result.TotalFiles
        /\ result.TotalFiles = Len(request.Files)
        /\ Len(result.Results) = result.TotalFiles
        /\ \A k \in 1..Len(request.Files) :
               result.Results[k].InputPath = request.Files[k]

\* a returned batch of two items, of which one failed validation and the
\* other was converted
C1_Witness ==
    /\ BatchDone
    /\ Len(request.Files) = 2
    /\ result.FailCount = 1 /\ result.SuccessCount = 1
    /\ \E k \in 1..2 : GetFileInfo(request.Files[k]).err # ErrNone

\* C2: ConvertBatch attempts every item: each index is validated and, if it
\* passes validation, converted, whatever happened to the items before it;
\* an item's result is a success exactly if its own conversion succeeded.
C2_NoShortCircuit ==
    BatchDone =>
        \A k \in 0..(Len(request.Files) - 1) :
            /\ <<k, "validate">> \in events
            /\ GetFileInfo(request.Files[k + 1]).err = ErrNone
                   => <<k, "convert">> \in events
            /\ k + 1 <= Len(result.Results)
            /\ result.Results[k + 1].Success <=> <<k, "ok">> \in events

\* a returned batch whose first item failed in conversion and whose second
\* item succeeded
C2_Witness ==
    /\ BatchDone
    /\ Len(request.Files) = 2
    /\ <<0, "convert">> \in events /\ <<0, "ok">> \notin events
    /\ ~result.Results[1].Success
    /\ result.Results[2].Success

\* C3: when ConvertFile returns, the record it created has a terminal
\* persisted status, whatever the category of the input.
C3_RecordTerminalAtReturn ==
    (pc = "cf_ret" /\ cur # 0) => db[cur].Status \in TerminalStatuses

\* C4: once the persisted status of a record is completed, failed or
\* cancelled, no later write changes it.
C4_StatusForwardOnly ==
    [][\A n \in 1..Len(db) :
          db[n].Status \in TerminalStatuses => db'[n].Status = db[n].Status]_vars

\* a ConvertFile call with overwrite disabled whose output path held a file
\* when the call began
OverwriteRefused == ~job.OverwriteOutput /\ job.OutputPath \in DOMAIN fsAtStart

\* the steps of such a call leave the files at the output paths and the
\* records of the other conversions as they are
OthersUnaffected ==
    [][(OverwriteRefused /\ pc' # pc) =>
          /\ fsOut' = fsOut
          /\ \A n \in 1..Len(db) : n # cur => db'[n] = db[n]]_vars

\* C9 as stated: with overwrite disabled and a file at the output path the
\* item fails with the already-exists error, the file is not modified and
\* the other items are not affected.
C9_AlreadyExistsAlways ==
    /\ [](pc = "cf_ret" /\ OverwriteRefused =>
            cfRet.err = ErrAlreadyExists /\ fsOut = fsAtStart)
    /\ OthersUnaffected

\* C9: with overwrite disabled and a file at the output path the item fails,
\* the file is not modified and the other items are not affected; the error
\* is the already-exists error for a video input, and for an image input
\* unless opening or decoding the input failed before the output was looked at.
C9_AlreadyExistsWhenReached ==
    /\ [](pc = "cf_ret" /\ OverwriteRefused =>
            /\ cfRet.err # ErrNone
            /\ fsOut = fsAtStart
            /\ LET r == GetFileInfo(job.InputPath)
               IN /\ (r.err = ErrNone /\ r.info.Type = FileTypeVideo)
                        => cfRet.err = ErrAlreadyExists
                  /\ (r.err = ErrNone /\ r.info.Type = FileTypeImage)
                        => cfRet.err \in {ErrOpen, ErrDecode, ErrAlreadyExists})
    /\ OthersUnaffected

\* a second call is refused with the already-exists error because of the
\* file the first call wrote
C9_Witness ==
    /\ pc = "cf_ret" /\ caller = "direct" /\ i = 1
    /\ OverwriteRefused
    /\ job.OutputPath = O_b_png
    /\ fsOut[O_b_png].state = "full"
    /\ cfRet.err = ErrAlreadyExists

\* C10: with a progress callback, ConvertBatch has reported the overall
\* progress once per item, in index order, with the value (k+1)/total*100
\* for the item of index k, validation failures included.
C10_ProgressAfterEachItem ==
    (BatchDone /\ request.hasCallback) =>
        /\ Len(progressEvents) = Len(request.Files)
        /\ \A k \in 1..Len(progressEvents) :
              /\ progressEvents[k].InputPath = request.Files[k]
              /\ progressEvents[k].Progress =
                     OverallProgress(k - 1, Len(request.Files))

(***************************************************************************)
(* Properties of the subprocess adapter's progress sink                    *)
(***************************************************************************)
\* the running ConvertFile has a video item whose tool run ended without error
VideoConverted ==
    /\ pc \in {"cf_finish", "cf_ret"} /\ cur # 0
    /\ GetFileInfo(job.InputPath).info.Type = FileTypeVideo
    /\ cfRet.err = ErrNone

\* C11: for an item the subprocess adapter has converted, the sequence of
\* sink calls is non-empty when the duration is > 0, every value lies in
\* [0,100], exactly one call carries 100 and that call is the last one.
C11_SinkSequence ==
    VideoConverted =>
        LET calls == scan[cur].calls
        IN /\ scan[cur].st # "none" => calls # <<>>
           /\ \A k \in 1..Len(calls) : calls[k] >= 0 /\ calls[k] <= 100
           /\ Cardinality({k \in 1..Len(calls) : calls[k] = 100}) = 1
           /\ calls # <<>> /\ calls[Len(calls)] = 100

(***************************************************************************)
(* Properties of CancelConversion                                          *)
(***************************************************************************)
\* C12: a CancelConversion call for an id that has no entry in the registry
\* returns the not-found error and leaves the registry, the persisted records
\* and the running batch as they are. (A step that is neither of the
\* converting goroutine, which moves pc or the loop index, nor of a scanner
\* goroutine, which moves scan, is a CancelConversion call.)
C12_CancelUnknown ==
    [][(pc' = pc /\ i' = i /\ scan' = scan /\ activeConversions = {}) =>
          /\ cancelRet' = ErrCancelNotFound
          /\ UNCHANGED <<activeConversions, db, mem, batchVars, job, cur, cfRet,
                         fsOut, events>>]_vars

\* a call has returned not-found while a batch item is being converted
C12_Witness ==
    /\ cancelRet = ErrCancelNotFound
    /\ caller = "batch" /\ pc = "vid_wait"
    /\ db[cur].Status = StatusProcessing

\* CancelConversion on its own. No path of the service adds an entry to the
\* registry, so the method is run on every registry over MaxIds ids and on
\* every list of up to MaxIds persisted rows.
MaxIds == 3

CancelRows ==
    {[NewConversion EXCEPT !.Status = st, !.Completed = (st # StatusProcessing)] :
        st \in {StatusProcessing, StatusCompleted, StatusFailed}}

InitCancel ==
    /\ PathIdle /\ ValIdle /\ FmtIdle /\ UiIdle /\ ArgIdle /\ SetIdle
    /\ pc = "off" /\ caller = "" /\ request = NoRequest /\ i = 0
    /\ result = NoBatchResult /\ progressEvents = <<>> /\ job = NoJob /\ cur = 0
    /\ batchErr = "not-returned"
    /\ cfRet = NoReturn /\ mem = <<>> /\ scan = <<>>
    /\ fsOut = <<>> /\ fsAtStart = <<>> /\ events = {}
    /\ db \in PathLists(CancelRows, MaxIds)
    /\ activeConversions \in SUBSET (1..MaxIds)
    /\ cancelRet = "none"
    /\ repoFaulty = FALSE

NextCancel == CancelConversion

SpecCancel == InitCancel /\ [][NextCancel]_vars

\* what two CancelConversion calls in a row for a registered id do
CancelTwice(id) ==
    LET o1 == CancelOutcome(activeConversions, db, id)
        o2 == CancelOutcome(o1.reg, o1.db, id)
    IN /\ o1.triggered = <<id>>
       /\ o1.reg = activeConversions \ {id}
       /\ id \in 1..Len(db) => o1.db[id].Status = StatusCancelled
       /\ o1.ret = "nil"
       /\ o2.ret = ErrCancelNotFound /\ o2.triggered = <<>>
       /\ o2.reg = o1.reg /\ o2.db = o1.db

C14_ErrorOnlyForEmptyList ==
    BatchDone => (batchErr # ErrNone <=> request.Files = <<>>)

(***************************************************************************)
(* Persistence errors                                                      *)
(***************************************************************************)
PersistenceErrors == {ErrCreateRecord, ErrUpdateRecord}

\* the items of the batch whose ConvertFile returned without error
ItemsOk == {k \in 0..(Len(request.Files) - 1) : <<k, "ok">> \in events}

\* C15: whichever calls of repo.Create and repo.Update fail, ConvertFile
\* returns what the converter (or the check of the input) returned, never a
\* persistence error, a returned success has its output written, and
\* ConvertBatch counts the items by the outcome of their conversion.
C15_PersistenceNonFatal ==
    /\ pc = "cf_ret" =>
          /\ cfRet.err \notin PersistenceErrors
          /\ LET r == GetFileInfo(job.InputPath)
             IN /\ r.err # ErrNone => cfRet.err = r.err
                /\ (r.err = ErrNone /\ r.info.Type = FileTypeUnknown)
                      => cfRet.err = ErrUnsupportedType
                /\ (r.err = ErrNone /\ r.info.Type # FileTypeUnknown)
                      => (<<i, "video">> \in events \/ <<i, "image">> \in events)
          /\ cfRet.err = ErrNone =>
                /\ cfRet.res = SuccessResult(job)
                /\ job.OutputPath \in DOMAIN fsOut
                /\ fsOut[job.OutputPath] = [src |-> job.InputPath, state |-> "full"]
    /\ BatchDone =>
          /\ result.SuccessCount = Cardinality(ItemsOk)
          /\ result.FailCount = Len(request.Files) - Cardinality(ItemsOk)

\* a conversion has succeeded although repo.Create and every repo.Update of
\* the call failed
C15_Witness ==
    /\ repoFaulty
    /\ pc = "cf_ret" /\ cur # 0
    /\ db[cur].Status = "absent"
    /\ cfRet.err = ErrNone

(***************************************************************************)
(* Format queries of the converters: SupportedOutputFormats and CanConvert *)
(* of the image converter and of the two video backends                    *)
(***************************************************************************)
BackendFFmpeg == "ffmpeg"
BackendAVFoundation == "avfoundation"
Backends == {BackendFFmpeg, BackendAVFoundation}

Range(seq) == {seq[k] : k \in 1..Len(seq)}

\* seq without the elements equal to drop, in order
RECURSIVE FilterOut(_, _)
FilterOut(seq, drop) ==
    IF seq = <<>> THEN <<>>
    ELSE IF Head(seq) = drop THEN FilterOut(Tail(seq), drop)
         ELSE <<Head(seq)>> \o FilterOut(Tail(seq), drop)

\* imageConverter.SupportedOutputFormats: models.ImageOutputFormats without "webp"
ImageSupportedOutputFormats == FilterOut(ImageOutputFormats, S_webp)

\* an image converter whose valid outputs include webp
ImageCanConvert_allowsWebp(inputFormat, outputFormat) ==
    LET inF == ToLower(TrimPrefixDot(inputFormat))
        outF == ToLower(TrimPrefixDot(outputFormat))
    IN /\ (S_dot \o inF) \in ImageFormats
       /\ outF \in (ImageEncoders \cup {S_webp})

\* imageConverter.CanConvert: both formats lower-cased and stripped of a
\* leading dot; the input must be an image format and the output one of
\* validOutputs (png, jpg, jpeg, gif, bmp, tiff, tif)
ImageCanConvert(inputFormat, outputFormat) ==
    LET inF == ToLower(TrimPrefixDot(inputFormat))
        outF == ToLower(TrimPrefixDot(outputFormat))
        validOutputs == <<S_png, S_jpg, S_jpeg, S_gif, S_bmp, S_tiff, S_tif>>
    IN /\ (S_dot \o inF) \in ImageFormats
       /\ \E k \in 1..Len(validOutputs) : validOutputs[k] = outF

\* avfVideoConverter.SupportedOutputFormats and
\* ffmpegVideoConverter.SupportedOutputFormats
AVFOutputFormats == <<S_mp4, S_mov, S_m4v>>
VideoSupportedOutputFormats(backend) ==
    IF backend = BackendAVFoundation THEN AVFOutputFormats
    ELSE VideoOutputFormats

\* the error of the encoder switch of imageConverter.Convert for the job that
\* ConvertBatch plans for an image and the output format
EncodeErrorFor(outputFormat) ==
    ImgFormatError(GenerateOutputPath(P_c_png, S_out, outputFormat,
                                      NamingModeOriginal, <<>>))

S_PNG == <<"P","N","G">>
S_WEBP == <<"W","E","B","P">>
QueryFormats ==
    {S_png, E_png, S_PNG, S_webp, E_webp, S_WEBP, S_jpg, S_jpeg, S_gif,
     S_bmp, S_tiff, S_tif, S_mp4}

InitFormats ==
    /\ PathIdle /\ ValIdle /\ SvcIdle
    /\ FmtIdle /\ UiIdle /\ ArgIdle /\ SetIdle

\* one query of the format provider: the output lists of both converters and
\* the image converter's answer for a pair of formats
FormatsQuery ==
    /\ \E b \in Backends, inF \in QueryFormats, outF \in QueryFormats :
          /\ fmtArgs' = [backend |-> b, inputFormat |-> inF, outputFormat |-> outF]
          /\ fmtOut' = [called |-> TRUE,
                        canConvert |-> ImageCanConvert(inF, outF),
                        imageOutputs |-> ImageSupportedOutputFormats,
                        videoOutputs |-> VideoSupportedOutputFormats(b),
                        encodeErr |-> EncodeErrorFor(outF)]
    /\ UNCHANGED <<pathVars, valVars, uiVars, argVars, setVars,
                   svcVars>>

NextFormats == FormatsQuery

SpecFormats == InitFormats /\ [][NextFormats]_vars

NormalFormat(f) == ToLower(TrimPrefixDot(f))

C17_AVFSubsetOfFFmpeg ==
    (fmtOut.called /\ fmtArgs.backend = BackendAVFoundation) =>
        /\ Len(fmtOut.videoOutputs) = 3
        /\ Cardinality(Range(fmtOut.videoOutputs)) = 3
        /\ Len(VideoSupportedOutputFormats(BackendFFmpeg)) = 6
        /\ Range(fmtOut.videoOutputs)
              \subseteq Range(VideoSupportedOutputFormats(BackendFFmpeg))

(***************************************************************************)
(* The interface: ConverterStore and handleConvert, up to the output path  *)
(* that ConvertBatch plans for each file                                   *)
(***************************************************************************)
MaxUiFiles == 2

UiInputs == {P_a_mp4, P_c_png}
UiNames == {S_empty, S_clip1}
UiFormats == {S_mp4}
UiModes == {NamingModeOriginal, NamingModeCustom}

\* file.type of a FileInfo in the store
UiTypeOf(path) == GetFileInfo(path).info.Type

\* newFiles.map(() => '')
EmptyNames(files) == [k \in 1..Len(files) |-> S_empty]

\* Array.filter on the (zero-based) index: the element at index is left out
RemoveAt(seq, index) ==
    [k \in 1..(Len(seq) - (IF index < Len(seq) THEN 1 ELSE 0)) |->
        IF k <= index THEN seq[k] ELSE seq[k + 1]]

\* newFiles.filter((f) => f.type === existingType)
RECURSIVE SameType(_, _)
SameType(files, type) ==
    IF files = <<>> THEN <<>>
    ELSE IF UiTypeOf(Head(files)) = type
         THEN <<Head(files)>> \o SameType(Tail(files), type)
         ELSE SameType(Tail(files), type)

\* setFiles; clearFiles leaves the store as setFiles of the empty list does
SetFiles ==
    /\ \E newFiles \in PathLists(UiInputs, MaxUiFiles) :
          store' = [store EXCEPT !.files = newFiles, !.outputFormat = <<>>,
                                 !.customNames = EmptyNames(newFiles)]
    /\ UNCHANGED <<sent, pathVars, valVars, fmtVars, argVars, setVars,
                   svcVars>>

AddFiles ==
    /\ \E newFiles \in PathLists(UiInputs, MaxUiFiles) :
          LET kept == IF store.files # <<>> /\ newFiles # <<>>
                      THEN SameType(newFiles, UiTypeOf(store.files[1]))
                      ELSE newFiles
          IN /\ Len(store.files) + Len(newFiles) <= MaxUiFiles
             /\ store' = [store EXCEPT !.files = @ \o kept,
                                       !.customNames = @ \o EmptyNames(kept)]
    /\ UNCHANGED <<sent, pathVars, valVars, fmtVars, argVars, setVars,
                   svcVars>>

RemoveFile ==
    /\ \E index \in 0..MaxUiFiles :
          store' = [store EXCEPT !.files = RemoveAt(@, index),
                                 !.customNames = RemoveAt(@, index)]
    /\ UNCHANGED <<sent, pathVars, valVars, fmtVars, argVars, setVars,
                   svcVars>>

SetOutputFormat ==
    /\ \E format \in UiFormats : store' = [store EXCEPT !.outputFormat = format]
    /\ UNCHANGED <<sent, pathVars, valVars, fmtVars, argVars, setVars,
                   svcVars>>

SetNamingMode ==
    /\ \E mode \in UiModes : store' = [store EXCEPT !.namingMode = mode]
    /\ UNCHANGED <<sent, pathVars, valVars, fmtVars, argVars, setVars,
                   svcVars>>

SetCustomName ==
    /\ \E index \in 0..MaxUiFiles, name \in UiNames :
          store' = IF index < Len(store.customNames)
                   THEN [store EXCEPT !.customNames[index + 1] = name]
                   ELSE store
    /\ UNCHANGED <<sent, pathVars, valVars, fmtVars, argVars, setVars,
                   svcVars>>

\* get canConvert (the output directory is set and no conversion is running)
CanConvert == store.files # <<>> /\ store.outputFormat # <<>>

\* the request handleConvert builds: customNames is the store's list with
\* the empty names filtered out
UiRequest ==
    [Files |-> store.files, OutputFormat |-> store.outputFormat,
     OutputDirectory |-> S_out, NamingMode |-> store.namingMode,
     CustomNames |-> FilterOut(store.customNames, S_empty),
     MakeCopies |-> TRUE, hasCallback |-> TRUE]

\* handleConvert: the request goes through ConvertFiles to ConvertBatch, which
\* plans the output path of each file
HandleConvert ==
    /\ CanConvert
    /\ sent' = [done |-> TRUE, entered |-> store.customNames,
                request |-> UiRequest,
                outputs |-> [k \in 1..Len(store.files) |->
                                PlannedOutputPath(UiRequest, k - 1)]]
    /\ UNCHANGED <<store, pathVars, valVars, fmtVars, argVars, setVars,
                   svcVars>>

InitUi ==
    /\ PathIdle /\ ValIdle /\ FmtIdle /\ SvcIdle
    /\ UiIdle /\ ArgIdle /\ SetIdle

NextUi ==
    \/ SetFiles
    \/ AddFiles
    \/ RemoveFile
    \/ SetOutputFormat
    \/ SetNamingMode
    \/ SetCustomName
    \/ HandleConvert

SpecUi == InitUi /\ [][NextUi]_vars

\* C18: under the Custom policy the output base name of each file is the
\* custom name entered for that file in the interface when that name is not
\* empty, and the file's own base name otherwise.
C18_NamesPositional ==
    (sent.done /\ sent.request.NamingMode = NamingModeCustom) =>
        \A k \in 1..Len(sent.request.Files) :
            StripExtOf(FileNameOf(sent.outputs[k])) =
                IF sent.entered[k] # S_empty THEN sent.entered[k]
                ELSE StripExtOf(FileNameOf(sent.request.Files[k]))

(***************************************************************************)
(* C19, C20: cancellation of an item in flight                             *)
(***************************************************************************)
\* the ffmpeg subprocess of the record cur is running and Convert waits for it
InFlight == pc = "vid_wait" /\ cur # 0 /\ db[cur].Status = StatusProcessing

\* C19: a cancel of the item in flight triggers the cancel function of its
\* conversion (CancelConversion returns nil and marks the record cancelled),
\* the converter then returns an error, and the record is cancelled, not
\* failed or completed, once ConvertFile has returned.
C19_CancelInFlight ==
    /\ [][(InFlight /\ CancelCall(cur)) =>
             /\ cancelRet' = "nil"
             /\ <<cur, "cancel">> \in events'
             /\ db'[cur].Status = StatusCancelled]_vars
    /\ [](\A id \in 1..Len(db) :
             (<<id, "cancel">> \in events /\ pc = "cf_ret" /\ cur = id) =>
                 /\ cfRet.err # ErrNone
                 /\ db[id].Status = StatusCancelled)

SinkRunning(n) == scan[n].st = "saving"

\* the calling goroutine writes the record: the sink call with the final 100
\* or ConvertFile's terminal update
CallerWrites == pc \in {"vid_final", "cf_finish"} /\ pc' # pc

\* C21: the record of an item has a single writer at a time. While a call of
\* the progress sink is running on the scanner goroutine, the calling
\* goroutine neither runs the sink nor issues ConvertFile's terminal update.
C21_SingleWriter ==
    [][\A n \in 1..Len(scan) : SinkRunning(n) => ~CallerWrites]_vars

\* the calling goroutine is inside a converter
ConverterPcs ==
    {"vid_start", "vid_wait", "vid_final",
     "img_start", "img_open", "img_decode", "img_out", "img_encode"}

\* C22: the items of a batch are processed one after the other. While the
\* converter of item i runs, every earlier item of the batch has its result
\* recorded, the record being converted is the one created last, and every
\* other record has had its terminal update (it is completed, with a terminal
\* status): no converter of another item is running.
C22_BatchSequential ==
    (caller = "batch" /\ pc \in ConverterPcs) =>
        /\ Len(result.Results) = i
        /\ i < Len(request.Files) /\ job.InputPath = request.Files[i + 1]
        /\ cur = Len(mem)
        /\ \A k \in 1..Len(mem) :
              k # cur => mem[k].Completed /\ mem[k].Status \in TerminalStatuses

(***************************************************************************)
(* The argument lists of the ffmpeg adapter: FFmpeg.Convert and            *)
(* FFmpeg.ConvertToGif                                                     *)
(***************************************************************************)
\* strconv.Itoa on the frame and sample rates that occur
Itoa(n) ==
    CASE n = 30 -> "30"
      [] n = 44100 -> "44100"
      [] OTHER -> "0"

\* an option and its value, when the value is set
OptArg(flag, value) == IF value # "" THEN <<flag, value>> ELSE <<>>
IntArg(flag, value) == IF value > 0 THEN <<flag, Itoa(value)>> ELSE <<>>

\* FFmpeg.Convert lines 116-155: -y or -n is put in front of "-i input"
ConvertArgs(opts) ==
    (IF opts.Overwrite THEN <<"-y">> ELSE <<"-n">>)
    \o <<"-i", opts.InputPath>>
    \o OptArg("-c:v", opts.VideoCodec)
    \o OptArg("-b:v", opts.VideoBitrate)
    \o OptArg("-s", opts.Resolution)
    \o IntArg("-r", opts.FrameRate)
    \o OptArg("-c:a", opts.AudioCodec)
    \o OptArg("-b:a", opts.AudioBitrate)
    \o IntArg("-ar", opts.SampleRate)
    \o <<"-progress", "pipe:1", "-nostats">>
    \o <<opts.OutputPath>>

GifFilter == "fps=10,scale=480:-1:flags=lanczos,split[s0][s1];[s0]palettegen[p];[s1][p]paletteuse"

\* FFmpeg.ConvertToGif lines 215-226: -y is added when overwrite is set and
\* nothing otherwise
GifArgs(inputPath, outputPath, overwrite) ==
    (IF overwrite THEN <<"-y">> ELSE <<>>)
    \o <<"-i", inputPath, "-vf", GifFilter, "-loop", "0",
         "-progress", "pipe:1", "-nostats", outputPath>>

ArgInputs == {"/in/a.mp4"}
ArgOutputs == {"/out/a.mp4", "/out/a.gif"}
ArgCodecs == {"", "libx264"}
ArgAudioCodecs == {"", "aac"}
ArgBitrates == {"", "1M"}
ArgResolutions == {"", "640x480"}
ArgFrameRates == {0, 30}
ArgSampleRates == {0, 44100}

ConvertOptions ==
    [entry : {"Convert"}, InputPath : ArgInputs, OutputPath : ArgOutputs,
     Overwrite : BOOLEAN, VideoCodec : ArgCodecs, VideoBitrate : ArgBitrates,
     Resolution : ArgResolutions, FrameRate : ArgFrameRates,
     AudioCodec : ArgAudioCodecs, AudioBitrate : ArgBitrates,
     SampleRate : ArgSampleRates]

GifOptions ==
    [entry : {"ConvertToGif"}, InputPath : ArgInputs, OutputPath : ArgOutputs,
     Overwrite : BOOLEAN]

InitArgs ==
    /\ PathIdle /\ ValIdle /\ FmtIdle /\ UiIdle /\ SetIdle /\ SvcIdle
    /\ ArgIdle

ConvertCall ==
    /\ \E opts \in ConvertOptions :
          ffOpts' = opts /\ ffArgs' = ConvertArgs(opts)
    /\ UNCHANGED <<pathVars, valVars, fmtVars, uiVars, setVars, svcVars>>

ConvertToGifCall ==
    /\ \E opts \in GifOptions :
          /\ ffOpts' = opts
          /\ ffArgs' = GifArgs(opts.InputPath, opts.OutputPath, opts.Overwrite)
    /\ UNCHANGED <<pathVars, valVars, fmtVars, uiVars, setVars, svcVars>>

NextArgs == ConvertCall \/ ConvertToGifCall

SpecArgs == InitArgs /\ [][NextArgs]_vars

OverwriteFlags == {"-y", "-n"}

\* C23: every argument list the adapter builds, by Convert or by
\* ConvertToGif and with overwrite enabled or disabled, holds exactly one of
\* the flags -y and -n, as its first argument, and the flag is -y exactly
\* when overwrite is enabled.
C23_OverwriteFlagFirst ==
    ffArgs # NotCalled =>
        /\ Cardinality({k \in 1..Len(ffArgs) : ffArgs[k] \in OverwriteFlags}) = 1
        /\ ffArgs[1] \in OverwriteFlags
        /\ ffArgs[1] = "-y" <=> ffOpts.Overwrite

(***************************************************************************)
(* C24                                                                     *)
(***************************************************************************)
\* the events of the item at (zero-based) position k of the batch
ItemEvents(k) == {e[2] : e \in {ev \in events : ev[1] = k}}

\* what GetFileInfo returns for each of the input paths of the service
FileInfos == [p \in BatchInputs |-> GetFileInfo(p)]

\* the item at position k does not pass GetFileInfo
FailsValidation(k) == FileInfos[request.Files[k + 1]].err # ErrNone

\* C24: in ConvertBatch an item is planned only after its validation has
\* succeeded. For an item that fails GetFileInfo no output path is generated,
\* no job is built, no record is created and no converter is invoked, and
\* its result carries an empty output path.
C24_PlanAfterValidation ==
    caller = "batch" =>
        /\ \A k \in 0..(Len(request.Files) - 1) :
              FailsValidation(k) =>
                 /\ ItemEvents(k) \subseteq {"validate"}
                 /\ k < Len(result.Results) =>
                       /\ result.Results[k + 1].OutputPath = <<>>
                       /\ ~result.Results[k + 1].Success
                       /\ result.Results[k + 1].InputPath = request.Files[k + 1]
        /\ job # NoJob => FileInfos[job.InputPath].err = ErrNone
        /\ Len(db) <= Cardinality({k \in 0..(Len(request.Files) - 1) :
                                      "plan" \in ItemEvents(k)})
        /\ Len(db) = Len(mem)

C24_Witness ==
    /\ BatchDone
    /\ Len(request.Files) = 2
    /\ FailsValidation(0) /\ ~FailsValidation(1)
    /\ result.Results[1].OutputPath = <<>>
    /\ result.Results[2].Success
    /\ Len(db) = 1

(***************************************************************************)
(* C25                                                                     *)
(***************************************************************************)
VideoPcs == {"vid_start", "vid_wait", "vid_final"}
ImagePcs == {"img_start", "img_open", "img_decode", "img_out", "img_encode"}

\* the category of the file ConvertFile is called with
JobType == FileInfos[job.InputPath].info.Type

\* C25: ConvertFile dispatches by the category of the input file only. The
\* video converter runs only for a video file and the image converter only
\* for an image file; a file of unknown category reaches neither, and
\* ConvertFile returns the unsupported-type error for it and for no other.
C25_DispatchByCategory ==
    /\ pc \in VideoPcs => JobType = FileTypeVideo
    /\ pc \in ImagePcs => JobType = FileTypeImage
    /\ (pc \in {"cf_dispatch", "cf_finish", "cf_ret"} \cup ConverterPcs /\ cur # 0) =>
          /\ "video" \in ItemEvents(ItemIdx) => JobType = FileTypeVideo
          /\ "image" \in ItemEvents(ItemIdx) => JobType = FileTypeImage
    /\ (pc = "cf_ret" /\ cur # 0) =>
          (JobType = FileTypeUnknown <=>
              cfRet = [res |-> "nil", err |-> ErrUnsupportedType])
    /\ pc = "cf_finish" => JobType \in {FileTypeVideo, FileTypeImage}

C25_Witness ==
    /\ pc = "cf_ret" /\ cur # 0
    /\ JobType = FileTypeUnknown
    /\ cfRet.err = ErrUnsupportedType
    /\ ItemEvents(ItemIdx) \cap {"video", "image"} = {}

(***************************************************************************)
(* C27                                                                     *)
(***************************************************************************)
\* the results after position k that planned the output path of result k
LaterSamePath(k) ==
    {l \in (k + 1)..Len(result.Results) :
        result.Results[l].OutputPath = result.Results[k].OutputPath}

\* C27: every job ConvertBatch builds has OverwriteOutput = true, whatever the
\* make-copies flag; no item of a batch fails with the output-already-exists
\* error; and of the items that plan one output path each one that succeeds
\* replaces what was there, so that when the batch returns the file is the
\* output of the last of them if that one succeeded.
C27_BatchOverwrites ==
    caller = "batch" =>
        /\ job # NoJob => job.OverwriteOutput
        /\ cfRet.err # ErrAlreadyExists
        /\ \A k \in 1..Len(result.Results) :
              /\ result.Results[k].ErrorMessage # ErrAlreadyExists
              /\ (BatchDone /\ result.Results[k].Success /\ LaterSamePath(k) = {}) =>
                    /\ result.Results[k].OutputPath \in DOMAIN fsOut
                    /\ fsOut[result.Results[k].OutputPath] =
                         [src |-> result.Results[k].InputPath, state |-> "full"]

C27_Witness ==
    /\ BatchDone
    /\ ~request.MakeCopies
    /\ Len(result.Results) = 2
    /\ result.Results[1].Success /\ result.Results[2].Success
    /\ result.Results[1].OutputPath = O_a_mp4
    /\ result.Results[2].OutputPath = O_a_mp4
    /\ fsOut[O_a_mp4] = [src |-> P_a_mp4, state |-> "full"]

(***************************************************************************)
(* C28                                                                     *)
(***************************************************************************)
\* ConvertFile has returned to its caller
CfReturned == pc \in {"b_after", "done"} /\ cfRet # NoReturn

\* C28: once ConvertFile has returned, every persisted record with status
\* completed has progress 100.
C28_CompletedAtHundred ==
    CfReturned =>
        \A n \in 1..Len(db) :
            db[n].Status = StatusCompleted => db[n].Progress = 100

(***************************************************************************)
(* C29                                                                     *)
(***************************************************************************)
\* imageConverter.Convert has returned an error to ConvertFile
ImageConvertFailed ==
    /\ pc = "cf_finish" /\ cfRet.err # ErrNone
    /\ JobType = FileTypeImage

\* C29: when imageConverter.Convert returns an error, the files at the output
\* paths are those that were there when it was called: the file at the job's
\* output path is unchanged and none was created.
C29_FailureLeavesOutput ==
    ImageConvertFailed => fsOut = fsAtStart

(***************************************************************************)
(* C30                                                                     *)
(***************************************************************************)
\* the category of the item at position k of the batch
ItemType(k) == FileInfos[request.Files[k + 1]].info.Type

\* ConvertFile has passed its dispatch for the item at position k
Dispatched(k) ==
    \/ k < i
    \/ k = i /\ pc \in ConverterPcs \cup {"cf_finish", "cf_ret", "b_after"}

\* C30: ConvertBatch does not apply the validator's single-category rule.
\* Each item that passes GetFileInfo is dispatched by its own category: a
\* video item reaches the video converter and an image item the image
\* converter, whatever the other items of the batch are, and no item is
\* failed with the mixed-types error.
C30_NoSingleCategoryRule ==
    caller = "batch" =>
        /\ \A k \in 0..(Len(request.Files) - 1) :
              (Dispatched(k) /\ ~FailsValidation(k)) =>
                  /\ ItemType(k) = FileTypeVideo => <<k, "video">> \in events
                  /\ ItemType(k) = FileTypeImage => <<k, "image">> \in events
        /\ cfRet.err # ErrMixed
        /\ \A k \in 1..Len(result.Results) :
              result.Results[k].ErrorMessage # ErrMixed

C30_Witness ==
    /\ BatchDone
    /\ request.Files = <<P_a_mp4, P_c_png>>
    /\ "video" \in ItemEvents(0) /\ "image" \in ItemEvents(1)
    /\ "image" \notin ItemEvents(0) /\ "video" \notin ItemEvents(1)
    /\ Len(result.Results) = 2

(***************************************************************************)
(* The settings: settingsRepoImpl.Get / Set and settingsServiceImpl        *)
(* GetSettings / SaveSettings                                              *)
(***************************************************************************)
MaxRows == 5

\* models.SettingLastOutputDir, SettingDefaultNaming, SettingDefaultMakeCopy,
\* SettingTheme: the four setting names
SettingLastOutputDir == "last_output_directory"
SettingDefaultNaming == "default_naming_mode"
SettingDefaultMakeCopy == "default_make_copies"
SettingTheme == "theme"
SettingKeys ==
    <<SettingLastOutputDir, SettingDefaultNaming, SettingDefaultMakeCopy,
      SettingTheme>>

\* models.DefaultUserSettings
DefaultUserSettings ==
    [LastOutputDirectory |-> "", DefaultNamingMode |-> NamingModeOriginal,
     DefaultMakeCopies |-> TRUE, Theme |-> "system"]

ErrSetSetting == "failed to set setting"
NoSetting == [found |-> FALSE, Value |-> ""]

\* db.Where("key = ?", key).First: the positions of the rows with the key,
\* of which First takes the earliest
RowsOf(rows, key) == {k \in 1..Len(rows) : rows[k].Key = key}
FirstRow(rows, key) == CHOOSE k \in RowsOf(rows, key) : \A j \in RowsOf(rows, key) : k <= j

\* settingsRepoImpl.Get: nil and no error when there is no row
RepoGet(rows, key) ==
    IF RowsOf(rows, key) = {} THEN NoSetting
    ELSE [found |-> TRUE, Value |-> rows[FirstRow(rows, key)].Value]

\* a Set that creates a row without looking for an existing one
RepoSet_alwaysCreates(rows, key, value, ok) ==
    IF ~ok THEN [rows |-> rows, err |-> ErrSetSetting]
    ELSE [rows |-> Append(rows, [Key |-> key, Value |-> value]), err |-> ErrNone]

\* settingsRepoImpl.Set: the row of the key is looked up; when there is none
\* a row is created, otherwise the row found is saved with the new value.
\* ok = FALSE: the query, the create or the save fails and nothing is written.
RepoSet(rows, key, value, ok) ==
    IF ~ok THEN [rows |-> rows, err |-> ErrSetSetting]
    ELSE IF RowsOf(rows, key) = {}
         THEN [rows |-> Append(rows, [Key |-> key, Value |-> value]),
               err |-> ErrNone]
         ELSE [rows |-> [rows EXCEPT ![FirstRow(rows, key)].Value = value],
               err |-> ErrNone]

\* strconv.FormatBool, and the comparison setting.Value == "true"
FormatBool(b) == IF b THEN "true" ELSE "false"
IsTrue(value) == value = "true"

\* the four Set calls of SaveSettings, in order
SettingValues(st) ==
    <<st.LastOutputDirectory, st.DefaultNamingMode,
      FormatBool(st.DefaultMakeCopies), st.Theme>>

\* SaveSettings: the Set calls are made in order up to the first that fails,
\* whose error is returned; fails = 0 when none fails
RECURSIVE SaveFrom(_, _, _, _)
SaveFrom(rows, st, n, fails) ==
    IF n > Len(SettingKeys) THEN [rows |-> rows, err |-> ErrNone]
    ELSE LET r == RepoSet(rows, SettingKeys[n], SettingValues(st)[n], n # fails)
         IN IF r.err # ErrNone THEN r
            ELSE SaveFrom(r.rows, st, n + 1, fails)

\* GetSettings: the defaults, each overridden by the row of its key if any
ReadSettings(rows) ==
    LET dir == RepoGet(rows, SettingLastOutputDir)
        naming == RepoGet(rows, SettingDefaultNaming)
        copies == RepoGet(rows, SettingDefaultMakeCopy)
        theme == RepoGet(rows, SettingTheme)
        d == DefaultUserSettings
    IN [LastOutputDirectory |-> IF dir.found THEN dir.Value ELSE d.LastOutputDirectory,
        DefaultNamingMode |-> IF naming.found THEN naming.Value ELSE d.DefaultNamingMode,
        DefaultMakeCopies |-> IF copies.found THEN IsTrue(copies.Value)
                              ELSE d.DefaultMakeCopies,
        Theme |-> IF theme.found THEN theme.Value ELSE d.Theme]

SetKeys == {SettingTheme, SettingDefaultMakeCopy}
SetValues == {"dark", "false"}
UserSettingsSet ==
    [LastOutputDirectory : {"/out"},
     DefaultNamingMode : {NamingModeOriginal, NamingModeCustom},
     DefaultMakeCopies : BOOLEAN, Theme : {"light", "dark"}]

\* the value last written by a Set that succeeded, per key
Unset == [found |-> FALSE, Value |-> ""]
NothingWritten == [k \in Range(SettingKeys) |-> Unset]
NoteSet(written, key, value) ==
    [written EXCEPT ![key] = [found |-> TRUE, Value |-> value]]
RECURSIVE NoteSave(_, _, _, _)
NoteSave(written, st, n, fails) ==
    IF n > Len(SettingKeys) \/ n = fails THEN written
    ELSE NoteSave(NoteSet(written, SettingKeys[n], SettingValues(st)[n]),
                  st, n + 1, fails)

\* the written values are those of the last call's record, or nothing
WrittenSoFar == IF settingOut.op = "" THEN NothingWritten ELSE settingOut.written

InitSettings ==
    /\ PathIdle /\ ValIdle /\ FmtIdle /\ UiIdle /\ ArgIdle /\ SvcIdle
    /\ SetIdle

SetCall ==
    /\ Len(settingRows) < MaxRows
    /\ \E key \in SetKeys, value \in SetValues, ok \in BOOLEAN :
          LET r == RepoSet(settingRows, key, value, ok)
          IN /\ settingRows' = r.rows
             /\ settingOut' = [op |-> "Set", key |-> key, value |-> value,
                               err |-> r.err,
                               written |-> IF ok THEN NoteSet(WrittenSoFar, key, value)
                                           ELSE WrittenSoFar]
    /\ UNCHANGED <<pathVars, valVars, fmtVars, uiVars, argVars, svcVars>>

GetCall ==
    /\ \E key \in Range(SettingKeys) :
          settingOut' = [op |-> "Get", key |-> key,
                         ret |-> RepoGet(settingRows, key), err |-> ErrNone,
                         written |-> WrittenSoFar]
    /\ UNCHANGED <<settingRows, pathVars, valVars, fmtVars, uiVars, argVars,
                   svcVars>>

SaveSettingsCall ==
    /\ Len(settingRows) < MaxRows
    /\ \E st \in UserSettingsSet, fails \in 0..Len(SettingKeys) :
          LET r == SaveFrom(settingRows, st, 1, fails)
          IN /\ settingRows' = r.rows
             /\ settingOut' = [op |-> "SaveSettings", settings |-> st,
                               err |-> r.err,
                               written |-> NoteSave(WrittenSoFar, st, 1, fails)]
    /\ UNCHANGED <<pathVars, valVars, fmtVars, uiVars, argVars, svcVars>>

\* GetSettings; saved is the argument of the SaveSettings call it follows
\* directly, when that call returned nil
GetSettingsCall ==
    /\ settingOut' = [op |-> "GetSettings", ret |-> ReadSettings(settingRows),
                      err |-> ErrNone,
                      saved |-> IF settingOut.op = "SaveSettings"
                                   /\ settingOut.err = ErrNone
                                THEN <<settingOut.settings>> ELSE <<>>,
                      written |-> WrittenSoFar]
    /\ UNCHANGED <<settingRows, pathVars, valVars, fmtVars, uiVars, argVars,
                   svcVars>>

NextSettings == SetCall \/ GetCall \/ SaveSettingsCall \/ GetSettingsCall

SpecSettings == InitSettings /\ [][NextSettings]_vars

====
